---- MODULE Spec2Model ----
(***************************************************************************)
(* A model of discord_bot.py: the streaming session relay.                 *)
(*                                                                         *)
(*   Spec        the session lifecycle: call_claude_enhanced (spawn,       *)
(*               readers, inactivity watchdog, final wait), the child      *)
(*               process, the global registration and stop_claude.         *)
(*                                                                         *)
(* Coroutines run on one asyncio event loop: a step of the model is the    *)
(* code between two awaits of one coroutine.                               *)
(***************************************************************************)
EXTENDS Integers, Sequences, FiniteSets, TLC

(***************************************************************************)
(* Bounds of the model and constants of the program.                       *)
(***************************************************************************)
\* Seconds the model's clock advances in one Tick.
ClockStep == 150
\* ActivityTimeout(300.0)
BaseTimeout == 300

\* The invocations of call_claude_enhanced the model follows (two command
\* handlers, which discord.py runs as concurrent tasks).
Sessions == {"p1", "p2"}
None == "None"
\* process.returncode: NoCode while the child runs, <<code>> once it has exited.
NoCode == <<>>

VARIABLES
    \* ---- lifecycle (Spec) ----
    pc,                      \* position of each call_claude_enhanced
    child,                   \* the child process: "none" | "running" | "exited"
    returncode,              \* process.returncode
    termSent,                \* SIGTERM was delivered to the child
    killSent,                \* SIGKILL was delivered to the child
    readers,                 \* readers_task: "none" | "running" | "done" | "raised" | "cancelled"
    idle,                    \* loop.time() - activity_timeout.last_activity
    sinceEvent,              \* seconds since the last stdout event was handled
    timedOut,                \* the watchdog took the inactivity branch
    result,                  \* what call_claude_enhanced returned
    current_claude_process,  \* the global registration (a session's child, or None)
    current_claude_channel,
    stop_pc,                 \* position of stop_claude
    stop_proc,               \* the process whose wait() stop_claude awaits
    stop_reply,              \* the last answer stop_claude sent
    stop_code,               \* the exit code in that answer
    stop_began,              \* the registration when the running stop_claude began
    \* ---- split_text (SpecSplit) ----
    split_in,                \* the text
    split_max,               \* max_len
    split_out,               \* the chunks returned
    split_again,             \* the chunks of the chunks joined
    split_pc,                \* "call" | "done" | "rejoined"
    \* ---- read_stdout (SpecStream) ----
    current_assistant_message,
    sent_text_length,
    last_discord_message,    \* truthy (TRUE) or None (FALSE)
    tools_used_after_text,
    is_todo_result,          \* "unbound" until read_stdout first assigns it
    stdout_pc,               \* "idle" | "reading" | "returned" | "broken" | "raised"
    out,                     \* the send calls of the last step, in order
    resets,                  \* the calls of activity_timeout.reset() in the last step
    tool_marks,              \* the lengths of the text at which a tool_use was seen
    lines_read,              \* the number of lines handled
    last_line,               \* what the last step handled
    last_shape,              \* the one block of that line, "other" if not one
    flush_tries,             \* the flushes attempted for text blocks in the last step
    \* ---- the reads of read_stdout and read_stderr (SpecReaders) ----
    pipe,                    \* the bytes of stdout not read yet
    partial_line,
    received,                \* the chunks read so far, decoded and joined
    decoded,                 \* the lines handed to json.loads, in order
    joined,                  \* a line handed over was put together from two reads or more
    retried,                 \* a read of stdout timed out while the child ran
    reader_pc,               \* read_stdout: "idle" | "reading" | "ended_..."
    exited,                  \* process.returncode is not None
    out_open,                \* the write end of stdout is still held open
    err_pipe,                \* the lines of stderr not read yet
    error_parts,
    stderr_pc,               \* read_stderr: "idle" | "reading" | "ended_..."
    err_open                 \* the write end of stderr is still held open

stopVars == <<stop_pc, stop_proc, stop_reply, stop_code, stop_began>>

lifeVars == <<pc, child, returncode, termSent, killSent, readers, idle, sinceEvent,
              timedOut, result, current_claude_process, current_claude_channel, stopVars>>

splitVars == <<split_in, split_max, split_out, split_again, split_pc>>

streamVars == <<current_assistant_message, sent_text_length, last_discord_message,
                tools_used_after_text, is_todo_result, stdout_pc, out, resets,
                tool_marks, lines_read, last_line, last_shape, flush_tries>>

readerVars == <<pipe, partial_line, received, decoded, joined, retried, reader_pc, exited,
                out_open, err_pipe, error_parts, stderr_pc, err_open>>

\* What the lifecycle leaves alone.
nonLifeVars == <<splitVars, streamVars, readerVars>>

vars == <<lifeVars, splitVars, streamVars, readerVars>>

(***************************************************************************)
(* The child process.                                                      *)
(***************************************************************************)
\* Exit codes the model distinguishes: success, failure, killed by SIGTERM,
\* killed by SIGKILL.
ExitCodes(s) ==
    IF killSent[s] THEN {-9}
    ELSE IF termSent[s] THEN {-15, 0}
    ELSE {0, 1}

\* The child exits: on its own, on SIGTERM (which it may also ignore), or on
\* SIGKILL.
ChildExit(s) ==
    /\ child[s] = "running"
    /\ \E code \in ExitCodes(s) :
          returncode' = [returncode EXCEPT ![s] = <<code>>]
    /\ child' = [child EXCEPT ![s] = "exited"]
    /\ UNCHANGED <<pc, termSent, killSent, readers, idle, sinceEvent, timedOut, result,
                   current_claude_process, current_claude_channel, stopVars>>
    /\ UNCHANGED nonLifeVars

\* process.terminate() / process.kill(): the signal reaches a running child.
Terminated(s) == [termSent EXCEPT ![s] = @ \/ child[s] = "running"]
Killed(s) == [killSent EXCEPT ![s] = @ \/ child[s] = "running"]

(***************************************************************************)
(* call_claude_enhanced.                                                   *)
(***************************************************************************)
\* The calls are named in the order in which they are made.
InCallOrder(s) == s = "p2" => pc["p1"] # "idle"

\* create_subprocess_exec succeeds: the child runs and is registered.
SpawnOk(s) ==
    /\ pc[s] = "idle"
    /\ InCallOrder(s)
    /\ pc' = [pc EXCEPT ![s] = "priming"]
    /\ child' = [child EXCEPT ![s] = "running"]
    /\ current_claude_process' = s
    /\ current_claude_channel' = s
    /\ UNCHANGED <<returncode, termSent, killSent, readers, idle, sinceEvent, timedOut,
                   result, stopVars>>
    /\ UNCHANGED nonLifeVars

\* A failed spawn that clears the registration as the outer handler does.
SpawnFailClearing(s) ==
    /\ pc[s] = "idle"
    /\ InCallOrder(s)
    /\ pc' = [pc EXCEPT ![s] = "returned"]
    /\ result' = [result EXCEPT ![s] = "error_start"]
    /\ current_claude_process' = None
    /\ current_claude_channel' = None
    /\ UNCHANGED <<child, returncode, termSent, killSent, readers, idle, sinceEvent,
                   timedOut, stopVars>>
    /\ UNCHANGED nonLifeVars

\* create_subprocess_exec raises: "Error: Failed to start".
SpawnFail(s) ==
    /\ pc[s] = "idle"
    /\ InCallOrder(s)
    /\ pc' = [pc EXCEPT ![s] = "returned"]
    /\ result' = [result EXCEPT ![s] = "error_start"]
    /\ UNCHANGED <<child, returncode, termSent, killSent, readers, idle, sinceEvent,
                   timedOut, current_claude_process, current_claude_channel, stopVars>>
    /\ UNCHANGED nonLifeVars

\* The newline is written to stdin and stdin closed; the ActivityTimeout is
\* created and run_with_activity_timeout starts readers_task.
PrimeOk(s) ==
    /\ pc[s] = "priming"
    /\ pc' = [pc EXCEPT ![s] = "supervise"]
    /\ readers' = [readers EXCEPT ![s] = "running"]
    /\ idle' = [idle EXCEPT ![s] = 0]
    /\ sinceEvent' = [sinceEvent EXCEPT ![s] = 0]
    /\ UNCHANGED <<child, returncode, termSent, killSent, timedOut, result,
                   current_claude_process, current_claude_channel, stopVars>>
    /\ UNCHANGED nonLifeVars

\* The outer handler: any exception outside the inner try blocks clears the
\* registration and returns "Error: ...".
OuterExcept(s) ==
    /\ pc' = [pc EXCEPT ![s] = "returned"]
    /\ result' = [result EXCEPT ![s] = "error_exception"]
    /\ current_claude_process' = None
    /\ current_claude_channel' = None

\* stdin.drain() / wait_closed() raises (the child closed its stdin or is
\* gone): the outer handler runs.
PrimeFail(s) ==
    /\ pc[s] = "priming"
    /\ OuterExcept(s)
    /\ UNCHANGED <<child, returncode, termSent, killSent, readers, idle, sinceEvent,
                   timedOut, stopVars>>
    /\ UNCHANGED nonLifeVars


(***************************************************************************)
(* The readers (read_stdout and read_stderr, gathered in readers_task).    *)
(***************************************************************************)
\* The kinds of stdout event read_stdout observes or delivers.
EventKinds == {"assistant_text", "thinking", "tool_use", "todo_write", "tool_result",
               "user_echo", "system", "result"}

\* Whether handling an event of this kind calls activity_timeout.reset().
\* Only the TodoWrite branch does; every other branch assigns the time to a
\* variable last_activity_time, local to read_stdout, which the watchdog
\* never reads.
EventResetsTimer(kind) == kind = "todo_write"

\* read_stdout handles one event.
StdoutEvent(s) ==
    /\ readers[s] = "running"
    /\ \E kind \in EventKinds :
          idle' = [idle EXCEPT ![s] = IF EventResetsTimer(kind) THEN 0 ELSE @]
    /\ sinceEvent' = [sinceEvent EXCEPT ![s] = 0]
    /\ UNCHANGED <<pc, child, returncode, termSent, killSent, readers, timedOut, result,
                   current_claude_process, current_claude_channel, stopVars>>
    /\ UNCHANGED nonLifeVars

\* The ActivityTimeout is read only while the watchdog loop runs: once the
\* readers are done or the watchdog has returned, the model stops its clock.
TimerDropped(s) ==
    /\ idle' = [idle EXCEPT ![s] = 0]
    /\ sinceEvent' = [sinceEvent EXCEPT ![s] = 0]

\* Both readers have left their loops (end of stream or a read timeout after
\* the child exited, the usage-limit return, an error that read_stdout logs).
ReadersFinish(s) ==
    /\ readers[s] = "running"
    /\ readers' = [readers EXCEPT ![s] = "done"]
    /\ TimerDropped(s)
    /\ UNCHANGED <<pc, child, returncode, termSent, killSent, timedOut,
                   result, current_claude_process, current_claude_channel, stopVars>>
    /\ UNCHANGED nonLifeVars

\* read_stdout raises: in its handler for "transport endpoint is not
\* connected" the flush of the remaining text is sent outside any try.
ReadStdoutRaise(s) ==
    /\ readers[s] = "running"
    /\ readers' = [readers EXCEPT ![s] = "raised"]
    /\ TimerDropped(s)
    /\ UNCHANGED <<pc, child, returncode, termSent, killSent, timedOut,
                   result, current_claude_process, current_claude_channel, stopVars>>
    /\ UNCHANGED nonLifeVars

\* The clock advances for every session whose timer is running.
Advance(t) == IF t + ClockStep >= BaseTimeout THEN BaseTimeout ELSE t + ClockStep

Tick ==
    /\ \E s \in Sessions : readers[s] = "running" /\ idle[s] < BaseTimeout
    /\ idle' = [s \in Sessions |-> IF readers[s] = "running" THEN Advance(idle[s]) ELSE idle[s]]
    /\ sinceEvent' = [s \in Sessions |->
                        IF readers[s] = "running" THEN Advance(sinceEvent[s]) ELSE sinceEvent[s]]
    /\ UNCHANGED <<pc, child, returncode, termSent, killSent, readers, timedOut, result,
                   current_claude_process, current_claude_channel, stopVars>>
    /\ UNCHANGED nonLifeVars

(***************************************************************************)
(* run_with_activity_timeout (the watchdog) and the end of the call.       *)
(***************************************************************************)
\* ActivityTimeout.time_remaining() <= 0
Expired(s) == idle[s] >= BaseTimeout

\* The inactivity branch: the readers are cancelled and the child is sent
\* SIGTERM; the watchdog then waits up to 5 s for it to exit.  The branch is
\* only reached with process.returncode still None (the poll before it breaks
\* out of the loop otherwise).
WdExpire(s) ==
    /\ pc[s] = "supervise"
    /\ readers[s] = "running"
    /\ child[s] = "running"
    /\ Expired(s)
    /\ readers' = [readers EXCEPT ![s] = "cancelled"]
    /\ timedOut' = [timedOut EXCEPT ![s] = TRUE]
    /\ termSent' = Terminated(s)
    /\ pc' = [pc EXCEPT ![s] = "wd_grace"]
    /\ UNCHANGED <<child, returncode, killSent, idle, sinceEvent, result,
                   current_claude_process, current_claude_channel, stopVars>>
    /\ UNCHANGED nonLifeVars

\* The child exited within the grace wait: the watchdog returns its message
\* (which the caller discards) and the call goes on to its final wait.
WdGraceExit(s) ==
    /\ pc[s] = "wd_grace"
    /\ child[s] = "exited"
    /\ pc' = [pc EXCEPT ![s] = "wait_exit"]
    /\ TimerDropped(s)
    /\ UNCHANGED <<child, returncode, termSent, killSent, readers,
                   timedOut, result, current_claude_process, current_claude_channel, stopVars>>
    /\ UNCHANGED nonLifeVars

\* A watchdog that gives up after the grace wait without process.kill().
WdGraceTimeoutNoKill(s) ==
    /\ pc[s] = "wd_grace"
    /\ child[s] = "running"
    /\ pc' = [pc EXCEPT ![s] = "wait_exit"]
    /\ TimerDropped(s)
    /\ UNCHANGED <<child, returncode, termSent, killSent, readers,
                   timedOut, result, current_claude_process, current_claude_channel, stopVars>>
    /\ UNCHANGED nonLifeVars

\* The grace wait timed out: process.kill().
WdGraceTimeout(s) ==
    /\ pc[s] = "wd_grace"
    /\ child[s] = "running"
    /\ killSent' = Killed(s)
    /\ pc' = [pc EXCEPT ![s] = "wait_exit"]
    /\ TimerDropped(s)
    /\ UNCHANGED <<child, returncode, termSent, readers,
                   timedOut, result, current_claude_process, current_claude_channel, stopVars>>
    /\ UNCHANGED nonLifeVars

\* A poll timed out with the child exited: the loop is left and the watchdog
\* awaits readers_task without any further timeout check.
WdJoin(s) ==
    /\ pc[s] = "supervise"
    /\ readers[s] = "running"
    /\ child[s] = "exited"
    /\ pc' = [pc EXCEPT ![s] = "wd_join"]
    /\ UNCHANGED <<child, returncode, termSent, killSent, readers, idle, sinceEvent,
                   timedOut, result, current_claude_process, current_claude_channel, stopVars>>
    /\ UNCHANGED nonLifeVars

\* readers_task finished: run_with_activity_timeout returns.
WdReadersDone(s) ==
    /\ pc[s] \in {"supervise", "wd_join"}
    /\ readers[s] = "done"
    /\ pc' = [pc EXCEPT ![s] = "wait_exit"]
    /\ UNCHANGED <<child, returncode, termSent, killSent, readers, idle, sinceEvent,
                   timedOut, result, current_claude_process, current_claude_channel, stopVars>>
    /\ UNCHANGED nonLifeVars

\* The handler around run_with_activity_timeout(): it returns the error text
\* and leaves the global registration as it is.
WatchdogExcept(s) ==
    /\ pc' = [pc EXCEPT ![s] = "returned"]
    /\ result' = [result EXCEPT ![s] = "error_exception"]
    /\ UNCHANGED <<current_claude_process, current_claude_channel>>

\* readers_task raised: the exception leaves run_with_activity_timeout.
WdReadersRaised(s) ==
    /\ pc[s] \in {"supervise", "wd_join"}
    /\ readers[s] = "raised"
    /\ WatchdogExcept(s)
    /\ UNCHANGED <<child, returncode, termSent, killSent, readers, idle, sinceEvent,
                   timedOut, stopVars>>
    /\ UNCHANGED nonLifeVars

\* The end of call_claude_enhanced: a non-zero return code gives
\* "Error: <stderr>", a zero one the response; both clear the registration.
Finalize(s) ==
    /\ pc' = [pc EXCEPT ![s] = "returned"]
    /\ result' = [result EXCEPT ![s] = IF returncode[s] # <<0>> THEN "error_exit" ELSE "ok"]
    /\ current_claude_process' = None
    /\ current_claude_channel' = None

\* wait_for(process.wait(), 10.0) returns: the child has exited.
WaitExitDone(s) ==
    /\ pc[s] = "wait_exit"
    /\ child[s] = "exited"
    /\ Finalize(s)
    /\ UNCHANGED <<child, returncode, termSent, killSent, readers, idle, sinceEvent,
                   timedOut, stopVars>>
    /\ UNCHANGED nonLifeVars

\* The final wait timed out: process.kill(), then process.wait() unbounded.
WaitExitTimeout(s) ==
    /\ pc[s] = "wait_exit"
    /\ child[s] = "running"
    /\ killSent' = Killed(s)
    /\ pc' = [pc EXCEPT ![s] = "wait_killed"]
    /\ UNCHANGED <<child, returncode, termSent, readers, idle, sinceEvent,
                   timedOut, result, current_claude_process, current_claude_channel, stopVars>>
    /\ UNCHANGED nonLifeVars

WaitKilledDone(s) ==
    /\ pc[s] = "wait_killed"
    /\ child[s] = "exited"
    /\ Finalize(s)
    /\ UNCHANGED <<child, returncode, termSent, killSent, readers, idle, sinceEvent,
                   timedOut, stopVars>>
    /\ UNCHANGED nonLifeVars

(***************************************************************************)
(* stop_claude.  It reads the global current_claude_process anew at every  *)
(* use, also after its awaits.                                             *)
(***************************************************************************)
\* A stop_claude without the test for None: it goes on to the notice.
StopUnchecked ==
    /\ stop_pc = "idle"
    /\ current_claude_process = None
    /\ stop_began' = None
    /\ stop_pc' = "notified"
    /\ UNCHANGED <<pc, child, returncode, termSent, killSent, readers, idle, sinceEvent,
                   timedOut, result, current_claude_process, current_claude_channel,
                   stop_proc, stop_reply, stop_code>>
    /\ UNCHANGED nonLifeVars

\* current_claude_process is None: "No Claude process is currently running."
StopNoProcess ==
    /\ stop_pc = "idle"
    /\ current_claude_process = None
    /\ stop_reply' = "no_process"
    /\ stop_code' = NoCode
    /\ stop_began' = None
    /\ UNCHANGED <<pc, child, returncode, termSent, killSent, readers, idle, sinceEvent,
                   timedOut, result, current_claude_process, current_claude_channel,
                   stop_pc, stop_proc>>
    /\ UNCHANGED nonLifeVars

\* The registered process has a return code: "already completed" is sent;
\* the registration is cleared after that send.
StopAlreadyCompleted ==
    /\ stop_pc = "idle"
    /\ current_claude_process # None
    /\ returncode[current_claude_process] # NoCode
    /\ stop_reply' = "already_completed"
    /\ stop_code' = NoCode
    /\ stop_began' = current_claude_process
    /\ stop_pc' = "clearing"
    /\ UNCHANGED <<pc, child, returncode, termSent, killSent, readers, idle, sinceEvent,
                   timedOut, result, current_claude_process, current_claude_channel,
                   stop_proc>>
    /\ UNCHANGED nonLifeVars

\* The registered process is running: "Stopping Claude process gracefully..."
\* is sent (an await) before any signal.
StopBegin ==
    /\ stop_pc = "idle"
    /\ current_claude_process # None
    /\ returncode[current_claude_process] = NoCode
    /\ stop_began' = current_claude_process
    /\ stop_pc' = "notified"
    /\ UNCHANGED <<pc, child, returncode, termSent, killSent, readers, idle, sinceEvent,
                   timedOut, result, current_claude_process, current_claude_channel,
                   stop_proc, stop_reply, stop_code>>
    /\ UNCHANGED nonLifeVars

\* The except branch of stop_claude: "Error stopping Claude process" is sent;
\* the registration is cleared after that send.
StopExcept ==
    /\ stop_reply' = "error"
    /\ stop_code' = NoCode
    /\ stop_pc' = "clearing"

\* current_claude_process.terminate(), then wait_for(....wait(), 10.0).  With
\* the registration cleared meanwhile the attribute access raises; on a
\* process that is gone the signal may raise ProcessLookupError.
StopTerminate ==
    /\ stop_pc = "notified"
    /\ \/ /\ current_claude_process = None
          /\ StopExcept
          /\ UNCHANGED <<termSent, stop_proc>>
       \/ /\ current_claude_process # None
          /\ child[current_claude_process] = "exited"
          /\ StopExcept
          /\ UNCHANGED <<termSent, stop_proc>>
       \/ /\ current_claude_process # None
          /\ termSent' = Terminated(current_claude_process)
          /\ stop_proc' = current_claude_process
          /\ stop_pc' = "wait_term"
          /\ UNCHANGED <<stop_reply, stop_code>>
    /\ UNCHANGED <<pc, child, returncode, killSent, readers, idle, sinceEvent,
                   timedOut, result, current_claude_process, current_claude_channel,
                   stop_began>>
    /\ UNCHANGED nonLifeVars

\* return_code = current_claude_process.returncode; the registration is
\* cleared; the termination report is sent.
StopReport(method) ==
    IF current_claude_process = None
    THEN /\ StopExcept
         /\ UNCHANGED <<current_claude_process, current_claude_channel, stop_proc, stop_began>>
    ELSE /\ stop_reply' = method
         /\ stop_code' = returncode[current_claude_process]
         /\ current_claude_process' = None
         /\ current_claude_channel' = None
         /\ stop_pc' = "idle"
         /\ stop_proc' = None
         /\ stop_began' = None

\* The awaited process exited within 10 s: "gracefully terminated".
StopWaitTermDone ==
    /\ stop_pc = "wait_term"
    /\ child[stop_proc] = "exited"
    /\ StopReport("gracefully terminated")
    /\ UNCHANGED <<pc, child, returncode, termSent, killSent, readers, idle, sinceEvent,
                   timedOut, result>>
    /\ UNCHANGED nonLifeVars

\* The wait timed out: current_claude_process.kill(), then
\* current_claude_process.wait() without a timeout.
StopWaitTermTimeout ==
    /\ stop_pc = "wait_term"
    /\ child[stop_proc] = "running"
    /\ \/ /\ current_claude_process = None
          /\ StopExcept
          /\ UNCHANGED <<killSent, stop_proc>>
       \/ /\ current_claude_process # None
          /\ child[current_claude_process] = "exited"
          /\ StopExcept
          /\ UNCHANGED <<killSent, stop_proc>>
       \/ /\ current_claude_process # None
          /\ killSent' = Killed(current_claude_process)
          /\ stop_proc' = current_claude_process
          /\ stop_pc' = "wait_kill"
          /\ UNCHANGED <<stop_reply, stop_code>>
    /\ UNCHANGED <<pc, child, returncode, termSent, readers, idle, sinceEvent,
                   timedOut, result, current_claude_process, current_claude_channel,
                   stop_began>>
    /\ UNCHANGED nonLifeVars

\* The killed process exited: "force killed".
StopWaitKillDone ==
    /\ stop_pc = "wait_kill"
    /\ child[stop_proc] = "exited"
    /\ StopReport("force killed")
    /\ UNCHANGED <<pc, child, returncode, termSent, killSent, readers, idle, sinceEvent,
                   timedOut, result>>
    /\ UNCHANGED nonLifeVars

\* After the "already completed" or the error message was sent: the global
\* references are cleared, whatever they refer to by now.
StopClear ==
    /\ stop_pc = "clearing"
    /\ current_claude_process' = None
    /\ current_claude_channel' = None
    /\ stop_pc' = "idle"
    /\ stop_proc' = None
    /\ stop_began' = None
    /\ UNCHANGED <<pc, child, returncode, termSent, killSent, readers, idle, sinceEvent,
                   timedOut, result, stop_reply, stop_code>>
    /\ UNCHANGED nonLifeVars

(***************************************************************************)
(* The lifecycle specification.                                            *)
(***************************************************************************)
\* No call made yet, no stop command running.
LifeIdle ==
    /\ pc = [s \in Sessions |-> "idle"]
    /\ child = [s \in Sessions |-> "none"]
    /\ returncode = [s \in Sessions |-> NoCode]
    /\ termSent = [s \in Sessions |-> FALSE]
    /\ killSent = [s \in Sessions |-> FALSE]
    /\ readers = [s \in Sessions |-> "none"]
    /\ idle = [s \in Sessions |-> 0]
    /\ sinceEvent = [s \in Sessions |-> 0]
    /\ timedOut = [s \in Sessions |-> FALSE]
    /\ result = [s \in Sessions |-> "none"]
    /\ current_claude_process = None
    /\ current_claude_channel = None
    /\ stop_pc = "idle"
    /\ stop_proc = None
    /\ stop_reply = "none"
    /\ stop_code = NoCode
    /\ stop_began = None

\* split_text is not in use.
SplitIdle ==
    /\ split_in = ""
    /\ split_max = 0
    /\ split_out = <<>>
    /\ split_again = <<>>
    /\ split_pc = "idle"

\* The locals of read_stdout as it starts (stdout_pc apart).
StreamStart ==
    /\ current_assistant_message = ""
    /\ sent_text_length = 0
    /\ last_discord_message = FALSE
    /\ tools_used_after_text = FALSE
    /\ is_todo_result = "unbound"
    /\ out = <<>>
    /\ resets = 0
    /\ tool_marks = {}
    /\ lines_read = 0
    /\ last_line = "none"
    /\ last_shape = "none"
    /\ flush_tries = 0

StreamIdle == StreamStart /\ stdout_pc = "idle"

\* The readers have not started.
ReadersIdle ==
    /\ pipe = ""
    /\ partial_line = ""
    /\ received = ""
    /\ decoded = <<>>
    /\ joined = FALSE
    /\ retried = FALSE
    /\ reader_pc = "idle"
    /\ exited = FALSE
    /\ out_open = TRUE
    /\ err_pipe = <<>>
    /\ error_parts = <<>>
    /\ stderr_pc = "idle"
    /\ err_open = TRUE

Init == LifeIdle /\ SplitIdle /\ StreamIdle /\ ReadersIdle

Next ==
    \/ \E s \in Sessions :
          \/ SpawnOk(s) \/ SpawnFail(s) \/ PrimeOk(s) \/ PrimeFail(s)
          \/ StdoutEvent(s) \/ ReadersFinish(s) \/ ReadStdoutRaise(s)
          \/ WdExpire(s) \/ WdGraceExit(s) \/ WdGraceTimeout(s) \/ WdJoin(s)
          \/ WdReadersDone(s) \/ WdReadersRaised(s)
          \/ WaitExitDone(s) \/ WaitExitTimeout(s) \/ WaitKilledDone(s)
          \/ ChildExit(s)
    \/ Tick
    \/ StopNoProcess \/ StopAlreadyCompleted \/ StopBegin \/ StopTerminate
    \/ StopWaitTermDone \/ StopWaitTermTimeout \/ StopWaitKillDone \/ StopClear

Spec == Init /\ [][Next]_vars


(***************************************************************************)
(* Strings.  A Python str is a TLA+ string; Len, \o and SubSeq act on it   *)
(* as on a sequence of characters.                                         *)
(***************************************************************************)
Min(a, b) == IF a <= b THEN a ELSE b
Max(a, b) == IF a >= b THEN a ELSE b

\* s[i-1] in Python
Ch(s, i) == SubSeq(s, i, i)

\* s[:k], k negative as well (it then counts from the end)
PyPrefix(s, k) ==
    IF k >= 0 THEN SubSeq(s, 1, Min(k, Len(s))) ELSE SubSeq(s, 1, Max(0, Len(s) + k))

\* s[k:], k >= 0
PySuffix(s, k) == SubSeq(s, k + 1, Len(s))

\* str.isspace() of one character (the characters the model uses)
IsSpace(c) == c \in {" ", "\n", "\t", "\r"}

\* The first position from i on, and the last position up to i, that holds
\* no white space (Len(s) + 1 and 0 where there is none).
RECURSIVE FirstInk(_, _)
FirstInk(s, i) == IF i > Len(s) \/ ~IsSpace(Ch(s, i)) THEN i ELSE FirstInk(s, i + 1)
RECURSIVE LastInk(_, _)
LastInk(s, i) == IF i < 1 \/ ~IsSpace(Ch(s, i)) THEN i ELSE LastInk(s, i - 1)

\* s.rstrip()
RStrip(s) == SubSeq(s, 1, LastInk(s, Len(s)))

\* s.strip()
Strip(s) == SubSeq(s, FirstInk(s, 1), LastInk(s, Len(s)))

\* sub in s
Contains(s, sub) ==
    \E i \in 1..(Len(s) - Len(sub) + 1) : SubSeq(s, i, i + Len(sub) - 1) = sub

\* s.startswith(sub)
StartsWith(s, sub) == Len(sub) <= Len(s) /\ SubSeq(s, 1, Len(sub)) = sub

\* s.split(sep) for a one-character separator: the list of the pieces
\* between the separators, empty pieces included.
RECURSIVE PySplit(_, _)
PySplit(s, sep) ==
    LET at == {i \in 1..Len(s) : Ch(s, i) = sep}
    IN  IF at = {} THEN <<s>>
        ELSE LET i == CHOOSE k \in at : \A j \in at : k <= j
             IN  <<SubSeq(s, 1, i - 1)>> \o PySplit(SubSeq(s, i + 1, Len(s)), sep)

\* c * n
RECURSIVE Rep(_, _)
Rep(c, n) ==
    IF n <= 0 THEN "" ELSE IF n = 1 THEN c ELSE Rep(c, n \div 2) \o Rep(c, n - n \div 2)

(***************************************************************************)
(* send_long_message.split_text                                            *)
(***************************************************************************)
\* word[:max_len-3] + "..."
Truncate(word, max_len) == PyPrefix(word, max_len - 3) \o "..."

\* The loop over the words of a text without a newline; chunks and current
\* are the loop's variables.
RECURSIVE WordsLoop(_, _, _, _)
WordsLoop(words, max_len, chunks, current) ==
    IF words = <<>>
    THEN IF current # "" THEN Append(chunks, RStrip(current)) ELSE chunks
    ELSE LET word == Head(words)
             test_text == IF current # "" THEN current \o word \o " " ELSE word \o " "
         IN  IF Len(test_text) <= max_len
             THEN WordsLoop(Tail(words), max_len, chunks, test_text)
             ELSE IF current # ""
                  THEN IF Len(word \o " ") > max_len
                       THEN WordsLoop(Tail(words), max_len,
                                      chunks \o <<RStrip(current), Truncate(word, max_len)>>, "")
                       ELSE WordsLoop(Tail(words), max_len,
                                      Append(chunks, RStrip(current)), word \o " ")
                  ELSE WordsLoop(Tail(words), max_len,
                                 Append(chunks, Truncate(word, max_len)), "")

RECURSIVE split_text(_, _)
RECURSIVE LinesLoop(_, _, _, _)
\* The loop over the lines of a text with a newline.
LinesLoop(lines, max_len, chunks, current) ==
    IF lines = <<>>
    THEN IF current # "" THEN Append(chunks, RStrip(current)) ELSE chunks
    ELSE LET line == Head(lines)
             test_line == IF current # "" THEN current \o line \o "\n" ELSE line \o "\n"
         IN  IF Len(test_line) <= max_len
             THEN LinesLoop(Tail(lines), max_len, chunks, test_line)
             ELSE IF current # ""
                  THEN IF Len(line \o "\n") > max_len
                       THEN LinesLoop(Tail(lines), max_len,
                                      Append(chunks, RStrip(current)) \o split_text(line, max_len),
                                      "")
                       ELSE LinesLoop(Tail(lines), max_len,
                                      Append(chunks, RStrip(current)), line \o "\n")
                  ELSE LinesLoop(Tail(lines), max_len,
                                 chunks \o split_text(line, max_len), "")

split_text(text, max_len) ==
    IF Len(text) <= max_len THEN <<text>>
    ELSE LET lines == PySplit(text, "\n")
             words == PySplit(text, " ")
         IN  IF Len(lines) > 1 THEN LinesLoop(lines, max_len, <<>>, "")
             ELSE IF Len(words) > 1 THEN WordsLoop(words, max_len, <<>>, "")
             ELSE <<Truncate(text, max_len)>>

(***************************************************************************)
(* SpecSplit: split_text applied to every text over a small alphabet.      *)
(***************************************************************************)
\* Longest text and largest max_len tried.
MaxTextLen == 6
MaxSplitLen == 5

Alphabet == {"a", " ", "\n"}

RECURSIVE TextsOfLen(_)
TextsOfLen(n) ==
    IF n = 0 THEN {""} ELSE {t \o c : t \in TextsOfLen(n - 1), c \in Alphabet}

Texts == UNION {TextsOfLen(n) : n \in 0..MaxTextLen}

InitSplit ==
    /\ LifeIdle
    /\ StreamIdle
    /\ ReadersIdle
    /\ split_in \in Texts
    /\ split_max \in 1..MaxSplitLen
    /\ split_out = <<>>
    /\ split_again = <<>>
    /\ split_pc = "call"

\* chunks = split_text(message, max_length)
SplitCall ==
    /\ split_pc = "call"
    /\ split_out' = split_text(split_in, split_max)
    /\ split_pc' = "done"
    /\ UNCHANGED <<split_in, split_max, split_again>>
    /\ UNCHANGED <<lifeVars, streamVars, readerVars>>

\* "".join(chunks)
RECURSIVE Join(_)
Join(chunks) == IF chunks = <<>> THEN "" ELSE Head(chunks) \o Join(Tail(chunks))

\* split_text(join(chunks), max_len): the chunks are joined and split anew.
SplitRejoin ==
    /\ split_pc = "done"
    /\ split_again' = split_text(Join(split_out), split_max)
    /\ split_pc' = "rejoined"
    /\ UNCHANGED <<split_in, split_max, split_out>>
    /\ UNCHANGED <<lifeVars, streamVars, readerVars>>

NextSplit == SplitCall \/ SplitRejoin

SpecSplit == InitSplit /\ [][NextSplit]_vars

(***************************************************************************)
(* read_stdout: the texts it sends.  One character stands for each code    *)
(* point that a TLA+ string cannot hold.                                   *)
(***************************************************************************)
\* any emoji of the messages (one code point each)
E == "@"
\* the backquote
BQ == "%"
BQ3 == BQ \o BQ \o BQ
\* the arrow of the Read tool's line numbers
Arrow == "^"

\* The transport's ceiling on one message, and the thresholds of read_stdout.
DiscordLimit == 2000
FlushEvery == 500
ThinkingCap == 1800
ResultCap == 1000
CommandCap == 100
ValueCap == 50

Digits == <<"0", "1", "2", "3", "4", "5", "6", "7", "8", "9">>

\* str(n) for n >= 0
RECURSIVE IntToStr(_)
IntToStr(n) == IF n < 10 THEN Digits[n + 1] ELSE IntToStr(n \div 10) \o Digits[(n % 10) + 1]

\* f"{n:02d}"
TwoDigits(n) == IF n < 10 THEN "0" \o IntToStr(n) ELSE IntToStr(n)

Upper == <<"A", "B", "C", "D", "E", "F", "G", "H", "I", "J", "K", "L", "M",
           "N", "O", "P", "Q", "R", "S", "T", "U", "V", "W", "X", "Y", "Z">>
LowerOf == <<"a", "b", "c", "d", "e", "f", "g", "h", "i", "j", "k", "l", "m",
             "n", "o", "p", "q", "r", "s", "t", "u", "v", "w", "x", "y", "z">>

UpperSet == {Upper[i] : i \in 1..26}

\* s.lower()
RECURSIVE Lower(_)
Lower(s) ==
    IF Len(s) = 0 THEN ""
    ELSE IF Len(s) = 1
         THEN IF s \in UpperSet
              THEN LowerOf[CHOOSE i \in 1..26 : Upper[i] = s] ELSE s
         ELSE Lower(SubSeq(s, 1, Len(s) \div 2)) \o Lower(SubSeq(s, Len(s) \div 2 + 1, Len(s)))

\* The string is one int() accepts (the model's timestamps carry no sign,
\* no blanks and no underscores): decimal digits, at least one.
IsDigits(s) == Len(s) > 0 /\ \A i \in 1..Len(s) : \E d \in 1..10 : Digits[d] = Ch(s, i)

DigitValue(c) == (CHOOSE i \in 1..10 : Digits[i] = c) - 1

\* The digits of int(s) without leading zeros.
RECURSIVE Canonical(_)
Canonical(s) == IF Len(s) > 1 /\ Ch(s, 1) = "0" THEN Canonical(PySuffix(s, 1)) ELSE s

\* a >= b for two canonical digit strings (the integers are unbounded in
\* Python, so they are compared as written).
DigitsGE(a, b) ==
    \/ Len(a) > Len(b)
    \/ /\ Len(a) = Len(b)
       /\ \/ a = b
          \/ LET diff == {i \in 1..Len(a) : Ch(a, i) # Ch(b, i)}
                 k == CHOOSE i \in diff : \A m \in diff : i <= m
             IN  DigitValue(Ch(a, k)) > DigitValue(Ch(b, k))

\* <<int(s) // d, int(s) % d>> by long division, q and r the quotient and
\* the remainder of the digits read so far.
RECURSIVE DivMod(_, _, _, _)
DivMod(s, d, q, r) ==
    IF s = "" THEN <<q, r>>
    ELSE LET x == 10 * r + DigitValue(Ch(s, 1))
         IN  DivMod(PySuffix(s, 1), d, 10 * q + x \div d, x % d)

\* datetime.fromtimestamp(timestamp, tz=timezone.utc) of an int that does
\* not fit the platform's time_t (64 bits, signed) raises OverflowError; one
\* that fits but lies after the year 9999 raises ValueError or OSError.
TimeTLimit == "9223372036854775808"
YearLimit == "253402300800"

MonthNames == <<"January", "February", "March", "April", "May", "June", "July",
                "August", "September", "October", "November", "December">>

\* datetime.fromtimestamp(ts, tz=utc).strftime("%B %d, %Y at %H:%M UTC"),
\* ts the digits of a timestamp before YearLimit: the civil date of the day
\* number, by the era / day-of-era
\* computation of the proleptic Gregorian calendar.
FormatDate(ts) ==
    LET days == DivMod(ts, 86400, 0, 0)[1]
        secs == DivMod(ts, 86400, 0, 0)[2]
        z    == days + 719468
        era  == z \div 146097
        doe  == z - era * 146097
        yoe  == (doe - doe \div 1460 + doe \div 36524 - doe \div 146096) \div 365
        doy  == doe - (365 * yoe + yoe \div 4 - yoe \div 100)
        mp   == (5 * doy + 2) \div 153
        d    == doy - (153 * mp + 2) \div 5 + 1
        m    == IF mp < 10 THEN mp + 3 ELSE mp - 9
        y    == yoe + era * 400 + (IF m <= 2 THEN 1 ELSE 0)
    IN  MonthNames[m] \o " " \o TwoDigits(d) \o ", " \o IntToStr(y) \o " at "
        \o TwoDigits(secs \div 3600) \o ":" \o TwoDigits((secs % 3600) \div 60) \o " UTC"

UsageLimitMarker == "Claude AI usage limit reached|"

\* The timestamp of a usage-limit message: message.split("|")[1].
TimestampStr(message) == PySplit(message, "|")[2]

\* format_usage_limit_message raises: the handler catches IndexError,
\* ValueError and OSError, and OverflowError is none of them.
format_usage_limit_raises(message) ==
    /\ Contains(message, UsageLimitMarker)
    /\ IsDigits(TimestampStr(message))
    /\ DigitsGE(Canonical(TimestampStr(message)), TimeTLimit)

\* What format_usage_limit_message returns where it does not raise.
format_usage_limit_message(message) ==
    IF Contains(message, UsageLimitMarker)
    THEN LET timestamp_str == TimestampStr(message)
         IN  IF IsDigits(timestamp_str) /\ ~DigitsGE(Canonical(timestamp_str), YearLimit)
             THEN E \o " **Claude AI Usage Limit Reached**\n" \o E \o " Limit resets on "
                  \o FormatDate(Canonical(timestamp_str))
             ELSE E \o " **Claude AI Usage Limit Reached**\n" \o E \o " Please try again later"
    ELSE message

RECURSIVE TodoRows(_, _, _)
TodoRows(todos, status, mark) ==
    IF todos = <<>> THEN ""
    ELSE (IF Head(todos).status = status
          THEN "  " \o mark \o " " \o Head(todos).content \o "\n" ELSE "")
         \o TodoRows(Tail(todos), status, mark)

HasStatus(todos, status) == \E i \in 1..Len(todos) : todos[i].status = status

format_todos_list(todos) ==
    IF todos = <<>> THEN E \o " **Todo List:** Empty"
    ELSE Strip(E \o " **Todo List:**\n"
               \o (IF HasStatus(todos, "in_progress")
                   THEN "\n" \o E \o " **In Progress:**\n" \o TodoRows(todos, "in_progress", E)
                   ELSE "")
               \o (IF HasStatus(todos, "pending")
                   THEN "\n" \o E \o " **Pending:**\n" \o TodoRows(todos, "pending", E)
                   ELSE "")
               \o (IF HasStatus(todos, "completed")
                   THEN "\n" \o E \o " **Completed:**\n" \o TodoRows(todos, "completed", E)
                   ELSE ""))

\* format_todo_content for a content that holds no JSON array: the regular
\* expression \[.*\] finds nothing (the model's tool results hold no "[").
format_todo_content(content) ==
    IF Contains(content, "Todos have been modified successfully")
    THEN E \o " **Todo List Updated Successfully**"
    ELSE IF Contains(content, "Remember to continue to use")
            /\ Contains(Lower(content), "todo list")
         THEN E \o " **Todo List:** Error parsing content"
         ELSE IF Contains(Lower(content), "todo list")
              THEN E \o " **Todo Update:** " \o content
              ELSE BQ \o content \o BQ

(***************************************************************************)
(* read_stdout: the handling of one decoded line.  The operators below     *)
(* transform a record r of read_stdout's local variables:                  *)
(*   cam, sent, ldm, tuat, itr   current_assistant_message,                *)
(*                      sent_text_length, last_discord_message (truthy or  *)
(*                      None), tools_used_after_text, is_todo_result       *)
(*   out                the calls of the transport's send made so far      *)
(*   n                  their number                                       *)
(*   resets             the calls of activity_timeout.reset() so far       *)
(*   marks              the lengths of cam at which a tool_use was seen    *)
(*   exc                the exception being raised, "none" if none         *)
(*   ret                read_stdout executed its return                    *)
(*   broke              the loop's exception handler ran (it ends the loop)*)
(*   fail               which send calls the transport fails               *)
(***************************************************************************)
\* The transport fails the send call number n.
Fails(fail, n) == fail.at # 0 /\ (n = fail.at \/ (fail.stays /\ n > fail.at))

\* cam[sent:].strip() is not empty: assistant text waits to be delivered.
Pending(r) == Strip(PySuffix(r.cam, r.sent)) # ""

\* await ctx.send(text).  The call is recorded, delivered or not; the
\* transport rejects a text above its limit as it does a failed request,
\* with discord.errors.HTTPException.
Send(r, kind, text, lo, hi) ==
    LET n == r.n + 1
        exc == IF Fails(r.fail, n) THEN r.fail.how
               ELSE IF Len(text) > DiscordLimit THEN "http" ELSE "none"
        call == [kind |-> kind, text |-> text, ok |-> exc = "none",
                 lo |-> lo, hi |-> hi, pending |-> Pending(r)]
    IN  [r EXCEPT !.n = n, !.out = Append(@, call), !.exc = exc]

\* for chunk in chunks: await ctx.send(chunk)
RECURSIVE SendChunks(_, _, _, _, _)
SendChunks(r, kind, chunks, lo, hi) ==
    IF chunks = <<>> \/ r.exc # "none" THEN r
    ELSE SendChunks(Send(r, kind, Head(chunks), lo, hi), kind, Tail(chunks), lo, hi)

send_long_message(r, kind, message, lo, hi) ==
    IF Len(message) <= DiscordLimit THEN Send(r, kind, message, lo, hi)
    ELSE SendChunks(r, kind, split_text(message, DiscordLimit), lo, hi)

\* The fallback of the flush, in "except discord.errors.HTTPException".
FlushFallback(r) ==
    LET cam == r.cam
        message_to_send ==
            IF Len(cam) > DiscordLimit
            THEN PyPrefix(PyPrefix(cam, DiscordLimit), -3) \o "..."
            ELSE PyPrefix(cam, DiscordLimit)
        new_text == PySuffix(cam, r.sent)
    IN  IF r.tuat
        THEN IF Strip(new_text) # ""
             THEN LET r1 == Send(r, "text", PyPrefix(new_text, DiscordLimit), r.sent, Len(cam))
                  IN  IF r1.exc = "none"
                      THEN [r1 EXCEPT !.ldm = TRUE, !.sent = Len(cam), !.tuat = FALSE]
                      ELSE r1
             ELSE [r EXCEPT !.tuat = FALSE]
        ELSE LET r1 == Send(r, "text", message_to_send, 0, Min(Len(cam), DiscordLimit))
             IN  IF r1.exc = "none"
                 THEN [r1 EXCEPT !.ldm = TRUE, !.sent = Len(cam), !.tuat = FALSE]
                 ELSE r1

\* The flush of a text block: the new text is sent with send_long_message,
\* whose result (None) becomes last_discord_message.
Flush(r) ==
    LET new_text == PySuffix(r.cam, r.sent)
        r1 == IF Strip(new_text) # ""
              THEN LET s == send_long_message(r, "text", new_text, r.sent, Len(r.cam))
                   IN  IF s.exc = "none"
                       THEN [s EXCEPT !.ldm = FALSE, !.sent = Len(r.cam), !.tuat = FALSE]
                       ELSE s
              ELSE r
    IN  IF r1.exc = "http" THEN FlushFallback([r1 EXCEPT !.exc = "none"])
        ELSE [r1 EXCEPT !.exc = "none"]

\* A test of the growth that also holds when the text ends as many
\* characters after a multiple of 500 as the block is long.
FlushDueInclusive(cam, text, late) == late \/ (Len(cam) % FlushEvery) <= Len(text)

\* The flush is due: a second has passed since the last one, or the text
\* has grown across a multiple of 500 characters.
FlushDue(cam, text, late) == late \/ (Len(cam) % FlushEvery) < Len(text)

\* A text block whose text takes the place of the text so far.
TextBlockReplacing(r, block) ==
    IF block.text = "" THEN r
    ELSE LET r1 == [r EXCEPT !.cam = block.text]
         IN  IF FlushDue(r1.cam, block.text, block.late)
             THEN Flush([r1 EXCEPT !.tries = @ + 1]) ELSE r1

\* A content block of type "text" of an assistant message.
TextBlock(r, block) ==
    IF block.text = "" THEN r
    ELSE LET r1 == [r EXCEPT !.cam = @ \o block.text]
         IN  IF FlushDue(r1.cam, block.text, block.late)
             THEN Flush([r1 EXCEPT !.tries = @ + 1]) ELSE r1

\* A content block of type "thinking".
ThinkingBlock(r, block) ==
    IF block.text = "" THEN r
    ELSE LET preview == IF Len(block.text) > ThinkingCap
                        THEN PyPrefix(block.text, ThinkingCap) \o "..." ELSE block.text
         IN  Send(r, "thinking",
                  E \o " **Claude's Thinking:**\n" \o BQ3 \o "\n" \o preview \o "\n" \o BQ3, 0, 0)

\* tool_input as the list of its items, <<key, value>>.
HasKey(input, k) == \E i \in 1..Len(input) : input[i][1] = k
Get(input, k) == input[CHOOSE i \in 1..Len(input) : input[i][1] = k][2]

\* One item of the generic preview.
PreviewItem(name, item) ==
    IF Len(item[2]) > ValueCap
    THEN IF name = "Task" /\ item[1] = "prompt"
         THEN item[1] \o ": " \o item[2]
         ELSE item[1] \o ": " \o BQ \o PyPrefix(item[2], ValueCap) \o "..." \o BQ
    ELSE item[1] \o ": " \o BQ \o item[2] \o BQ

\* ", ".join of the previews of the first two items
GenericPreview(name, input) ==
    IF Len(input) = 0 THEN ""
    ELSE IF Len(input) = 1 THEN PreviewItem(name, input[1])
    ELSE PreviewItem(name, input[1]) \o ", " \o PreviewItem(name, input[2])

\* file_path.split('/')[-1]
BaseName(path) == LET parts == PySplit(path, "/") IN parts[Len(parts)]

\* input_preview of a tool_use block
InputPreview(block) ==
    LET name == block.name
        input == block.input
    IN  IF name = "Bash" /\ HasKey(input, "command")
        THEN "Command: " \o BQ \o PyPrefix(Get(input, "command"), CommandCap) \o BQ
        ELSE IF name = "Read" /\ HasKey(input, "file_path")
        THEN E \o " " \o BQ \o BaseName(Get(input, "file_path")) \o BQ
        ELSE IF name = "Write" /\ HasKey(input, "file_path")
        THEN "File: " \o BQ \o Get(input, "file_path") \o BQ
        ELSE IF name = "Edit" /\ HasKey(input, "file_path")
        THEN "File: " \o BQ \o Get(input, "file_path") \o BQ \o " (editing " \o BQ
             \o PyPrefix(IF HasKey(input, "old_string") THEN Get(input, "old_string") ELSE "",
                         ValueCap)
             \o "..." \o BQ \o ")"
        ELSE IF name = "Task" /\ HasKey(input, "prompt")
        THEN "Prompt: " \o Get(input, "prompt")
        ELSE IF name = "TodoRead" THEN E \o " Reading todo list"
        ELSE IF name = "TodoWrite"
        THEN E \o " Updating todo list (" \o IntToStr(Len(block.todos)) \o " items)"
        ELSE IF name = "MultiEdit" /\ HasKey(input, "file_path")
        THEN "File: " \o BQ \o Get(input, "file_path") \o BQ \o " (0 edits)"
        ELSE IF HasKey(input, "path")
        THEN "Path: " \o BQ \o Get(input, "path") \o BQ
        ELSE GenericPreview(name, input)

\* A content block of type "tool_use".  tools_used_after_text is set when
\* last_discord_message is truthy; a TodoWrite with todos sends the todo
\* list first and resets the inactivity timer; then the notice is sent.
ToolUseBlock(r, block) ==
    LET r1 == [r EXCEPT !.tuat = @ \/ r.ldm, !.marks = @ \cup {Len(r.cam)}]
        input_preview == InputPreview(block)
        r2 == IF block.name = "TodoWrite" /\ block.todos # <<>>
              THEN LET s == Send(r1, "todo_list", format_todos_list(block.todos), 0, 0)
                   IN  IF s.exc = "none" THEN [s EXCEPT !.resets = @ + 1] ELSE s
              ELSE r1
        tool_msg == IF block.name = "Read"
                    THEN E \o " **Reading:** " \o input_preview
                    ELSE E \o " **Tool Use:** " \o block.name
                         \o (IF input_preview # "" THEN "\n   " \o input_preview ELSE "")
    IN  IF r2.exc # "none" THEN r2 ELSE Send(r2, "tool_use", tool_msg, 0, 0)

\* The content of a tool result looks like the output of Read: it has an
\* arrow, and one of its first 20 lines starts with a number 1..19 and an
\* arrow.
FirstLines(content) == LET ls == PySplit(content, "\n") IN SubSeq(ls, 1, Min(20, Len(ls)))

IsReadResult(content) ==
    /\ Contains(content, Arrow)
    /\ \E i \in 1..19 : \E k \in 1..Len(FirstLines(content)) :
          StartsWith(Strip(FirstLines(content)[k]), IntToStr(i) \o Arrow)

\* The indicators of a todo result, looked for in content.lower()
TodoIndicators ==
    {"todo list", "status\":\"", "priority\":\"", "\"content\":\"",
     "in_progress", "pending", "completed", "remember to continue"}

IsTodoResult(content) ==
    LET lowered == Lower(content) IN \E ind \in TodoIndicators : Contains(lowered, ind)

\* The preview of a tool result that is neither a Read result nor a todo
\* result: cut at 1000 characters, then fenced or quoted.
PlainPreview(content) ==
    LET cut == IF Len(content) > ResultCap
               THEN PyPrefix(content, ResultCap) \o "\n... (truncated)" ELSE content
    IN  IF Contains(cut, "\n") \/ \E c \in {"/", "\\", "$", ">"} : Contains(cut, c)
        THEN BQ3 \o "\n" \o cut \o "\n" \o BQ3
        ELSE BQ \o cut \o BQ

\* The contents of the tool results in the lines the model reads.
ResultContents ==
    {"ok",
     "a\nb",
     "",
     "1" \o Arrow \o "x\n2" \o Arrow \o "y",
     "Todos have been modified successfully",
     Rep("r", 1001),
     "completed " \o Rep("q", 1001)}

\* What the branch for "tool_result" works out from the content alone:
\* whether it is taken for the output of Read, whether is_todo_result is
\* assigned and to what, and the preview.
ResultView(content) ==
    LET is_read_result == content # "" /\ IsReadResult(content)
        assigns == content # "" /\ ~is_read_result
        todo == assigns /\ IsTodoResult(content)
    IN  [is_read_result |-> is_read_result,
         assigns |-> assigns,
         is_todo_result |-> IF todo THEN "true" ELSE "false",
         result_preview |-> IF ~assigns THEN ""
                            ELSE IF todo THEN format_todo_content(content)
                            ELSE PlainPreview(content)]

\* ResultView of every content the model reads, worked out once.
ResultViews == [content \in ResultContents |-> ResultView(content)]

\* A block of type "tool_result" of a user message.  For a Read result
\* nothing is sent (its summary is computed and dropped).  is_todo_result is
\* assigned only for a non-empty content that is not a Read result; reading
\* it before any assignment raises UnboundLocalError.
ToolResultBlock(r, block) ==
    LET seen == ResultViews[block.content]
        is_read_result == seen.is_read_result
        itr == IF seen.assigns THEN seen.is_todo_result ELSE r.itr
        result_preview == seen.result_preview
        tool_result_msg == E \o " **Tool Result**"
                           \o (IF result_preview # "" THEN "\n" \o result_preview ELSE "")
        r1 == [r EXCEPT !.itr = itr]
    IN  IF is_read_result THEN r1
        ELSE IF itr = "unbound" THEN [r1 EXCEPT !.exc = "other"]
        ELSE send_long_message(r1, "tool_result", tool_result_msg, 0, 0)

\* The blocks of a user message, in order; message_content is the echo of
\* its last non-empty text block.
RECURSIVE UserBlocks(_, _, _)
UserBlocks(r, blocks, message_content) ==
    IF r.exc # "none" THEN r
    ELSE IF blocks = <<>>
    THEN IF message_content # "" THEN Send(r, "user", message_content, 0, 0) ELSE r
    ELSE LET block == Head(blocks)
         IN  IF block.type = "text"
             THEN UserBlocks(r, Tail(blocks),
                             IF block.text # "" THEN "**User:** " \o block.text
                             ELSE message_content)
             ELSE IF block.type = "tool_result"
             THEN UserBlocks(ToolResultBlock(r, block), Tail(blocks), message_content)
             ELSE UserBlocks(r, Tail(blocks), message_content)

\* A record of type "user": its content is a list of blocks or a string.
UserRecord(r, data) ==
    IF data.content_is_list THEN UserBlocks(r, data.content, "")
    ELSE LET message_content == "**User:** " \o data.text
         IN  Send(r, "user", message_content, 0, 0)

\* len([l for l in lines if arrow in l])
ArrowLines(content) ==
    LET ls == PySplit(content, "\n")
    IN  Cardinality({k \in 1..Len(ls) : Contains(ls[k], Arrow)})

\* A record of type "system".
SystemRecord(r, data) ==
    LET status == E
        message_content ==
            IF data.subtype = "thinking" THEN E \o " *Claude is thinking...*"
            ELSE IF data.subtype = "tool_use"
            THEN E \o " *Using tool: " \o data.tool_name \o "*"
            ELSE IF data.subtype \in {"tool_result", "tool_error"}
            THEN IF data.tool_name = "Read" /\ data.subtype = "tool_result"
                 THEN IF data.text # "" /\ Contains(data.text, Arrow)
                      THEN status \o " *Read completed ("
                           \o IntToStr(ArrowLines(data.text)) \o " lines)*"
                      ELSE status \o " *Read completed*"
                 ELSE status \o " *Tool " \o data.tool_name \o " completed*"
            ELSE ""
    IN  IF message_content # "" THEN Send(r, "system", message_content, 0, 0) ELSE r

\* The result carries is_error and the usage-limit marker.
IsUsageLimit(data) == data.is_error /\ Contains(data.text, UsageLimitMarker)

\* The usage-limit branch of a result: the message is formatted and sent,
\* then read_stdout returns.
UsageLimitResult(r, data) ==
    IF format_usage_limit_raises(data.text) THEN [r EXCEPT !.exc = "other"]
    ELSE LET r1 == Send(r, "usage_limit", format_usage_limit_message(data.text), 0, 0)
         IN  IF r1.exc = "none" THEN [r1 EXCEPT !.ret = TRUE] ELSE r1

\* A completion that sends its notice and leaves the text not yet sent.
CompletionResultNoFlush(r, data) ==
    Send(r, "completion",
         E \o " *Conversation completed (" \o IntToStr(data.num_turns) \o " turns)*", 0, 0)

\* The other results: the text not yet sent is sent (a failure of that send
\* is logged and dropped), then the completion notice.
CompletionResult(r, data) ==
    LET r1 == IF r.cam # "" /\ r.sent < Len(r.cam) /\ Pending(r)
              THEN LET s == send_long_message(r, "text", PySuffix(r.cam, r.sent),
                                              r.sent, Len(r.cam))
                   IN  IF s.exc = "none" THEN [s EXCEPT !.sent = Len(r.cam)]
                       ELSE [s EXCEPT !.exc = "none"]
              ELSE r
    IN  Send(r1, "completion",
             E \o " *Conversation completed (" \o IntToStr(data.num_turns) \o " turns)*", 0, 0)

\* A record of type "result".
ResultRecord(r, data) ==
    IF IsUsageLimit(data) THEN UsageLimitResult(r, data) ELSE CompletionResult(r, data)

\* The content blocks of an assistant message, in order.
RECURSIVE AssistantBlocks(_, _)
AssistantBlocks(r, blocks) ==
    IF blocks = <<>> \/ r.exc # "none" THEN r
    ELSE LET block == Head(blocks)
             r1 == IF block.type = "text" THEN TextBlock(r, block)
                   ELSE IF block.type = "thinking" THEN ThinkingBlock(r, block)
                   ELSE IF block.type = "tool_use" THEN ToolUseBlock(r, block)
                   ELSE r
         IN  AssistantBlocks(r1, Tail(blocks))

\* A handler of the decoding error that lets the exception pass.
NonJsonLineRaises(r) == [r EXCEPT !.exc = "other"]

\* json.loads raised JSONDecodeError: the line is logged, the loop continues.
NonJsonLine(r) == r

\* A dispatch that fails on a record of a type it does not know.
ProcessLineStrict(r, data) ==
    IF data.type = "nonjson" THEN NonJsonLine(r)
    ELSE IF data.type = "nonobject" THEN [r EXCEPT !.exc = "other"]
    ELSE IF data.type = "assistant" /\ data.has_message THEN AssistantBlocks(r, data.content)
    ELSE IF data.type = "user" THEN UserRecord(r, data)
    ELSE IF data.type = "system" THEN SystemRecord(r, data)
    ELSE IF data.type = "result" THEN ResultRecord(r, data)
    ELSE [r EXCEPT !.exc = "other"]

\* One stripped, non-empty line: json.loads, then the dispatch on its type.
\* A line that is not JSON is skipped; a JSON value that is not an object
\* has no get (AttributeError).
ProcessLine(r, data) ==
    IF data.type = "nonjson" THEN NonJsonLine(r)
    ELSE IF data.type = "nonobject" THEN [r EXCEPT !.exc = "other"]
    ELSE IF data.type = "assistant" /\ data.has_message THEN AssistantBlocks(r, data.content)
    ELSE IF data.type = "user" THEN UserRecord(r, data)
    ELSE IF data.type = "system" THEN SystemRecord(r, data)
    ELSE IF data.type = "result" THEN ResultRecord(r, data)
    ELSE r

\* The text that waits at the end of the stream is sent: the code of the
\* branch "not chunk" and of the branch "transport endpoint is not
\* connected"; only the first resets the inactivity timer, and only where
\* last_discord_message is truthy and no tool was used since.
FinalFlush(r, atEof) ==
    LET remaining == PySuffix(r.cam, r.sent)
        SendRemaining(q, k) ==
            IF Strip(remaining) # ""
            THEN LET s == send_long_message(q, "text", remaining, q.sent, Len(q.cam))
                 IN  IF s.exc = "none"
                     THEN [s EXCEPT !.sent = Len(q.cam), !.resets = @ + k]
                     ELSE s
            ELSE q
    IN  IF r.cam = "" THEN r
        ELSE IF r.ldm /\ ~r.tuat THEN SendRemaining(r, IF atEof THEN 1 ELSE 0)
        ELSE IF r.tuat /\ r.sent < Len(r.cam) THEN SendRemaining(r, 0)
        ELSE IF ~r.tuat /\ r.sent = 0
        THEN LET s == send_long_message(r, "text", r.cam, 0, Len(r.cam))
             IN  IF s.exc = "none" THEN [s EXCEPT !.sent = Len(r.cam)] ELSE s
        ELSE IF ~r.tuat /\ r.sent < Len(r.cam) THEN SendRemaining(r, 0)
        ELSE r

\* "except Exception" of the read loop: the message of a lost connection
\* leads to the final flush, whose own failure leaves read_stdout by the
\* exception; any other exception is logged.  Both end the loop.
LoopExcept(r) ==
    IF r.exc = "notconn" THEN FinalFlush([r EXCEPT !.exc = "none", !.broke = TRUE], FALSE)
    ELSE [r EXCEPT !.exc = "none", !.broke = TRUE]

\* The body of the loop under its exception handler.
Step(r) == IF r.exc # "none" THEN LoopExcept(r) ELSE r

\* Where read_stdout stands after a step that ended as q.
AfterStep(q, eof) ==
    IF q.ret THEN "returned"
    ELSE IF q.exc # "none" THEN "raised"
    ELSE IF q.broke \/ eof THEN "broken" ELSE "reading"

(***************************************************************************)
(* read_stdout as a state machine (SpecStream): one step handles one line  *)
(* of the child's output, or the end of the stream.                        *)
(***************************************************************************)
MaxLines == 2

\* The ways the transport fails the send calls of one step: not at all, or
\* from the call number at on (once, or from then on), with an HTTP error,
\* with the error of a lost connection, or with another error.
NoFail == [at |-> 0, how |-> "none", stays |-> FALSE]
FailModes ==
    {NoFail,
     [at |-> 1, how |-> "http", stays |-> FALSE],
     [at |-> 1, how |-> "http", stays |-> TRUE],
     [at |-> 1, how |-> "notconn", stays |-> FALSE],
     [at |-> 1, how |-> "notconn", stays |-> TRUE],
     [at |-> 1, how |-> "other", stays |-> FALSE],
     [at |-> 2, how |-> "http", stays |-> FALSE]}

\* Content blocks.  late: a second has passed since the last flush.
Block(type, text, late, name, input, todos, content) ==
    [type |-> type, text |-> text, late |-> late, name |-> name, input |-> input,
     todos |-> todos, content |-> content]
TextB(text, late) == Block("text", text, late, "", <<>>, <<>>, "")
ThinkB(text) == Block("thinking", text, FALSE, "", <<>>, <<>>, "")
ToolB(name, input) == Block("tool_use", "", FALSE, name, input, <<>>, "")
TodoWriteB(todos) == Block("tool_use", "", FALSE, "TodoWrite", <<>>, todos, "")
ToolResultB(content) == Block("tool_result", "", FALSE, "", <<>>, <<>>, content)
\* A block of a type that read_stdout has no branch for.
UnknownB == Block("image", "", FALSE, "", <<>>, <<>>, "")

\* Decoded lines.
Line(type, content, text, subtype, tool_name, is_error, num_turns) ==
    [type |-> type, has_message |-> TRUE, content_is_list |-> TRUE, content |-> content,
     text |-> text, subtype |-> subtype, tool_name |-> tool_name, is_error |-> is_error,
     num_turns |-> num_turns]
Assistant(content) == Line("assistant", content, "", "", "", FALSE, 0)
User(content) == Line("user", content, "", "", "", FALSE, 0)
UserStr(text) == [Line("user", <<>>, text, "", "", FALSE, 0) EXCEPT !.content_is_list = FALSE]
System(subtype, tool_name, text) == Line("system", <<>>, text, subtype, tool_name, FALSE, 0)
Result(is_error, text, num_turns) == Line("result", <<>>, text, "", "", is_error, num_turns)
Other(type) == Line(type, <<>>, "", "", "", FALSE, 0)

Todo(content, status) == [content |-> content, status |-> status, priority |-> "medium"]

AssistantLines ==
    {Assistant(<<TextB("Hello", FALSE)>>),
     Assistant(<<TextB("Hello", TRUE)>>),
     Assistant(<<TextB(" world", TRUE)>>),
     Assistant(<<TextB(" ", TRUE)>>),
     Assistant(<<TextB("", TRUE)>>),
     Assistant(<<TextB(Rep("a", 500), FALSE)>>),
     Assistant(<<TextB(Rep("a", 1200) \o " " \o Rep("b", 1200), FALSE)>>),
     Assistant(<<TextB("Hello", FALSE), ToolB("Bash", <<<<"command", "ls">>>>),
                 TextB(" world", TRUE)>>),
     Assistant(<<TextB("Hello", TRUE), ToolB("Bash", <<<<"command", "ls">>>>),
                 TextB(" world", FALSE)>>),
     Assistant(<<UnknownB>>),
     Assistant(<<UnknownB, TextB("Hello", TRUE)>>),
     Assistant(<<ThinkB("hm")>>),
     Assistant(<<ThinkB(Rep("t", 1801))>>),
     Assistant(<<ToolB("Bash", <<<<"command", Rep("c", 101)>>>>)>>),
     Assistant(<<ToolB("Read", <<<<"file_path", "/src/a.py">>>>)>>),
     Assistant(<<ToolB("Write", <<<<"file_path", "/src/a.py">>>>)>>),
     Assistant(<<ToolB("Edit", <<<<"file_path", "a.py">>, <<"old_string", "x">>>>)>>),
     Assistant(<<ToolB("MultiEdit", <<<<"file_path", "a.py">>>>)>>),
     Assistant(<<ToolB("Task", <<<<"description", "d">>, <<"prompt", Rep("p", 2000)>>>>)>>),
     Assistant(<<ToolB("TodoRead", <<>>)>>),
     Assistant(<<TodoWriteB(<<Todo("x", "pending"), Todo("y", "completed")>>)>>),
     Assistant(<<TodoWriteB(<<>>)>>),
     Assistant(<<ToolB("LS", <<<<"path", "/src">>>>)>>),
     Assistant(<<ToolB("Grep", <<<<"pattern", Rep("g", 51)>>, <<"glob", "*">>>>)>>),
     [Assistant(<<TextB("Hello", TRUE)>>) EXCEPT !.has_message = FALSE]}

UserLines ==
    {User(<<ToolResultB(content)>>) : content \in ResultContents} \cup
    {User(<<UnknownB>>),
     User(<<TextB("hi", FALSE)>>),
     UserStr(Rep("u", 2001))}

SystemLines ==
    {System("thinking", "", ""),
     System("tool_use", "Bash", ""),
     System("tool_result", "Read", "1" \o Arrow \o "x"),
     System("tool_result", "Read", ""),
     System("tool_error", "Bash", ""),
     System("init", "", "")}

ResultLines ==
    {Result(TRUE, UsageLimitMarker \o "1700000000", 0),
     Result(TRUE, UsageLimitMarker \o "soon", 0),
     Result(TRUE, UsageLimitMarker \o "253402300800", 0),
     Result(TRUE, UsageLimitMarker \o "9223372036854775808", 0),
     Result(TRUE, "failed", 1),
     Result(FALSE, "done", 3)}

OtherLines == {Other("nonjson"), Other("nonobject"), Other("control")}

LineInputs == AssistantLines \cup UserLines \cup SystemLines \cup ResultLines \cup OtherLines

\* What a line is made of, when it is made of one content block: a text block
\* ("text_late" if a second has passed since the last flush, "text_soon" if
\* not), a tool use, a tool result (Read output or not), a block of a type
\* that read_stdout does not know.
Shape(data) ==
    IF data.type \in {"assistant", "user"} /\ data.has_message /\ data.content_is_list
       /\ Len(data.content) = 1
    THEN LET block == data.content[1]
         IN  IF block.type = "text" /\ data.type = "assistant"
             THEN (IF block.late THEN "text_late" ELSE "text_soon")
             ELSE IF block.type = "tool_use" /\ data.type = "assistant" THEN "tool_use"
             ELSE IF block.type = "tool_result" /\ data.type = "user"
             THEN (IF ResultViews[block.content].is_read_result
                   THEN "read_result" ELSE "tool_result")
             ELSE IF block.type \notin {"text", "thinking", "tool_use", "tool_result"}
             THEN "unknown_block"
             ELSE "other"
    ELSE IF data.type = "assistant" /\ data.has_message /\ Len(data.content) = 2
            /\ data.content[1].type \notin {"text", "thinking", "tool_use", "tool_result"}
         THEN "unknown_first"
         ELSE "other"

\* read_stdout's locals at the start of a step.
Locals(fail) ==
    [cam |-> current_assistant_message, sent |-> sent_text_length,
     ldm |-> last_discord_message, tuat |-> tools_used_after_text,
     itr |-> is_todo_result, out |-> <<>>, n |-> 0, resets |-> 0,
     marks |-> tool_marks, exc |-> "none", ret |-> FALSE, broke |-> FALSE, fail |-> fail,
     tries |-> 0]

\* The variables after a step that ended as r.
Store(r) ==
    /\ current_assistant_message' = r.cam
    /\ sent_text_length' = r.sent
    /\ last_discord_message' = r.ldm
    /\ tools_used_after_text' = r.tuat
    /\ is_todo_result' = r.itr
    /\ out' = r.out
    /\ resets' = r.resets
    /\ tool_marks' = r.marks
    /\ flush_tries' = r.tries

\* The line data, of the given shape, is handled, the transport failing as
\* fail says.
Handle(data, shape, fail) ==
    \E q \in {Step(ProcessLine(Locals(fail), data))} :
        /\ Store(q)
        /\ stdout_pc' = AfterStep(q, FALSE)
        /\ last_line' = IF data.type = "result" /\ IsUsageLimit(data)
                        THEN "usage_limit" ELSE data.type
        /\ last_shape' = shape
        /\ lines_read' = lines_read + 1
        /\ UNCHANGED <<lifeVars, splitVars, readerVars>>

\* The shape of every line the model reads.
Shapes == [data \in LineInputs |-> Shape(data)]

\* A complete line was read and handled.
HandleLine ==
    /\ stdout_pc = "reading"
    /\ lines_read < MaxLines
    /\ \E data \in LineInputs, fail \in FailModes : Handle(data, Shapes[data], fail)

\* read() returned nothing and the child has exited: the final flush, break.
EndOfStream ==
    /\ stdout_pc = "reading"
    /\ \E fail \in FailModes :
          LET q == Step(FinalFlush(Locals(fail), TRUE))
          IN  /\ Store(q)
              /\ stdout_pc' = AfterStep(q, TRUE)
    /\ last_line' = "eof"
    /\ last_shape' = "none"
    /\ UNCHANGED lines_read
    /\ UNCHANGED <<lifeVars, splitVars, readerVars>>

\* No data for 5 seconds and the child has exited: break, nothing is sent.
ReadTimeoutExited ==
    /\ stdout_pc = "reading"
    /\ stdout_pc' = "broken"
    /\ out' = <<>>
    /\ resets' = 0
    /\ flush_tries' = 0
    /\ last_line' = "read_timeout"
    /\ last_shape' = "none"
    /\ UNCHANGED <<current_assistant_message, sent_text_length, last_discord_message,
                   tools_used_after_text, is_todo_result, tool_marks, lines_read>>
    /\ UNCHANGED <<lifeVars, splitVars, readerVars>>

\* read() raised: break, nothing is sent.
ReadError ==
    /\ stdout_pc = "reading"
    /\ stdout_pc' = "broken"
    /\ out' = <<>>
    /\ resets' = 0
    /\ flush_tries' = 0
    /\ last_line' = "read_error"
    /\ last_shape' = "none"
    /\ UNCHANGED <<current_assistant_message, sent_text_length, last_discord_message,
                   tools_used_after_text, is_todo_result, tool_marks, lines_read>>
    /\ UNCHANGED <<lifeVars, splitVars, readerVars>>

InitStream ==
    /\ LifeIdle
    /\ SplitIdle
    /\ ReadersIdle
    /\ StreamStart
    /\ stdout_pc = "reading"

NextStream == HandleLine \/ EndOfStream \/ ReadTimeoutExited \/ ReadError

SpecStream == InitStream /\ [][NextStream]_vars

(***************************************************************************)
(* Text blocks around the marks of 500 characters (SpecText): read_stdout  *)
(* holds Prior characters of text, delivered or not, and text blocks of    *)
(* Grow characters arrive, a second or more after the last flush or less.  *)
(***************************************************************************)
MaxAppends == 2

Priors == {0, 1, 494, 495, 499, 500, 501, 994, 1000}
Grows == {1, 5, 6, 499, 500, 501}

TextLine(k, late) == Assistant(<<TextB(Rep("b", k), late)>>)

InitText ==
    /\ LifeIdle
    /\ SplitIdle
    /\ ReadersIdle
    /\ \E p \in Priors :
          /\ current_assistant_message = Rep("a", p)
          /\ sent_text_length \in {0, p}
    /\ last_discord_message = FALSE
    /\ tools_used_after_text = FALSE
    /\ is_todo_result = "unbound"
    /\ out = <<>>
    /\ resets = 0
    /\ tool_marks = {}
    /\ lines_read = 0
    /\ last_line = "none"
    /\ last_shape = "none"
    /\ flush_tries = 0
    /\ stdout_pc = "reading"

\* A line with one text block was read and handled.
AppendText ==
    /\ stdout_pc = "reading"
    /\ lines_read < MaxAppends
    /\ \E k \in Grows, late \in BOOLEAN, fail \in FailModes :
          Handle(TextLine(k, late), Shape(TextLine(k, late)), fail)

NextText == AppendText

SpecText == InitText /\ [][NextText]_vars

(***************************************************************************)
(* The two readers at the level of their reads (SpecReaders): read_stdout  *)
(* reads chunks, assembles lines and hands them to the decoder; read_stderr *)
(* reads lines; both ask for the child's exit when a read brings nothing.  *)
(* What the decoder's caller does with a line is the matter of SpecStream; *)
(* here every line is handled and the loop goes on.                        *)
(*                                                                         *)
(* The bytes of stdout are a string over "a", " ", "\n" and the two bytes  *)
(* "<" ">" of one two-byte character, which decodes to "e".                *)
(***************************************************************************)
\* The longest output of the child, and the most bytes one read returns
\* (read(1024) returns from 1 byte to its limit).
MaxStream == 4
MaxChunk == 3

Tokens == {"a", " ", "\n", "<>"}

\* The well-formed byte strings of n bytes.
RECURSIVE StreamsOfLen(_)
StreamsOfLen(n) ==
    IF n < 0 THEN {}
    ELSE IF n = 0 THEN {""}
    ELSE {b \o t : b \in StreamsOfLen(n - 1), t \in Tokens \ {"<>"}}
         \cup {b \o "<>" : b \in StreamsOfLen(n - 2)}

Streams == UNION {StreamsOfLen(n) : n \in 0..MaxStream}

\* What the child writes to stderr, line by line.
ErrStreams == {<<>>, <<"warn ">>, <<"", "warn">>}

\* chunk.decode('utf-8', errors='ignore'): a lead byte without its
\* continuation byte and a continuation byte without its lead byte are
\* dropped.
RECURSIVE Decode(_)
Decode(b) ==
    IF b = "" THEN ""
    ELSE IF Ch(b, 1) = "<"
    THEN IF Len(b) >= 2 /\ Ch(b, 2) = ">"
         THEN "e" \o Decode(SubSeq(b, 3, Len(b)))
         ELSE Decode(SubSeq(b, 2, Len(b)))
    ELSE IF Ch(b, 1) = ">" THEN Decode(SubSeq(b, 2, Len(b)))
    ELSE Ch(b, 1) \o Decode(SubSeq(b, 2, Len(b)))

\* The lines of the list that are handed to json.loads: each is stripped,
\* an empty one is skipped.
RECURSIVE Handed(_)
Handed(lines) ==
    IF lines = <<>> THEN <<>>
    ELSE (IF Strip(Head(lines)) = "" THEN <<>> ELSE <<Strip(Head(lines))>>)
         \o Handed(Tail(lines))

\* The child runs, the readers start.
InitReaders ==
    /\ LifeIdle
    /\ SplitIdle
    /\ StreamIdle
    /\ pipe \in Streams
    /\ partial_line = ""
    /\ received = ""
    /\ decoded = <<>>
    /\ joined = FALSE
    /\ retried = FALSE
    /\ reader_pc = "reading"
    /\ exited = FALSE
    /\ out_open = TRUE
    /\ err_pipe \in ErrStreams
    /\ error_parts = <<>>
    /\ stderr_pc = "reading"
    /\ err_open = TRUE

\* A chunk whose text takes the place of partial_line.
ReadChunkForgetting ==
    /\ reader_pc = "reading"
    /\ pipe # ""
    /\ \E n \in 1..Min(MaxChunk, Len(pipe)) :
          LET chunk_text == Decode(SubSeq(pipe, 1, n))
              parts == PySplit(chunk_text, "\n")
          IN  /\ pipe' = SubSeq(pipe, n + 1, Len(pipe))
              /\ received' = received \o chunk_text
              /\ partial_line' = parts[Len(parts)]
              /\ decoded' = decoded \o Handed(SubSeq(parts, 1, Len(parts) - 1))
              /\ joined' = (joined \/ (Strip(partial_line) # "" /\ Len(parts) >= 2))
    /\ UNCHANGED <<retried, reader_pc, exited, out_open, err_pipe, error_parts,
                   stderr_pc, err_open>>
    /\ UNCHANGED <<lifeVars, splitVars, streamVars>>

\* read(1024) returned a chunk: it is decoded and appended to partial_line,
\* and every complete line of partial_line is taken off and handled.
ReadChunk ==
    /\ reader_pc = "reading"
    /\ pipe # ""
    /\ \E n \in 1..Min(MaxChunk, Len(pipe)) :
          LET chunk_text == Decode(SubSeq(pipe, 1, n))
              parts == PySplit(partial_line \o chunk_text, "\n")
          IN  /\ pipe' = SubSeq(pipe, n + 1, Len(pipe))
              /\ received' = received \o chunk_text
              /\ partial_line' = parts[Len(parts)]
              /\ decoded' = decoded \o Handed(SubSeq(parts, 1, Len(parts) - 1))
              /\ joined' = (joined \/ (Strip(partial_line) # "" /\ Len(parts) >= 2))
    /\ UNCHANGED <<retried, reader_pc, exited, out_open, err_pipe, error_parts,
                   stderr_pc, err_open>>
    /\ UNCHANGED <<lifeVars, splitVars, streamVars>>

\* A read timeout that ends the reader whether the child runs or not.
StdoutTimeoutBreaks ==
    /\ reader_pc = "reading"
    /\ out_open
    /\ reader_pc' = "ended_timeout"
    /\ UNCHANGED <<retried, pipe, partial_line, received, decoded, joined, exited, out_open,
                   err_pipe, error_parts, stderr_pc, err_open>>
    /\ UNCHANGED <<lifeVars, splitVars, streamVars>>

\* No data on stdout for 5 seconds (the pipe is open and nothing is
\* written): break if the child has exited, read again if not.
StdoutTimeout ==
    /\ reader_pc = "reading"
    /\ out_open
    /\ IF exited
       THEN reader_pc' = "ended_timeout" /\ UNCHANGED retried
       ELSE retried' = TRUE /\ UNCHANGED reader_pc
    /\ UNCHANGED <<pipe, partial_line, received, decoded, joined, exited, out_open,
                   err_pipe, error_parts, stderr_pc, err_open>>
    /\ UNCHANGED <<lifeVars, splitVars, streamVars>>

\* read() returned nothing, the stream is at its end: if the child has
\* exited the text that waits is flushed and the loop left (partial_line is
\* not looked at); if not, sleep(0.1) and read again.
StdoutEof ==
    /\ reader_pc = "reading"
    /\ ~out_open
    /\ pipe = ""
    /\ reader_pc' = IF exited THEN "ended_eof" ELSE reader_pc
    /\ UNCHANGED <<retried, pipe, partial_line, received, decoded, joined, exited, out_open,
                   err_pipe, error_parts, stderr_pc, err_open>>
    /\ UNCHANGED <<lifeVars, splitVars, streamVars>>

\* read() raised: break.
StdoutReadError ==
    /\ reader_pc = "reading"
    /\ reader_pc' = "ended_error"
    /\ UNCHANGED <<retried, pipe, partial_line, received, decoded, joined, exited, out_open,
                   err_pipe, error_parts, stderr_pc, err_open>>
    /\ UNCHANGED <<lifeVars, splitVars, streamVars>>

\* A line of stderr that is put before the lines kept so far.
StderrLinePrepending ==
    /\ stderr_pc = "reading"
    /\ err_pipe # <<>>
    /\ error_parts' = <<Strip(Head(err_pipe))>> \o error_parts
    /\ err_pipe' = Tail(err_pipe)
    /\ UNCHANGED <<retried, pipe, partial_line, received, decoded, joined, reader_pc, exited,
                   out_open, stderr_pc, err_open>>
    /\ UNCHANGED <<lifeVars, splitVars, streamVars>>

\* readline() returned a line of stderr: it is stripped and kept.
StderrLine ==
    /\ stderr_pc = "reading"
    /\ err_pipe # <<>>
    /\ error_parts' = Append(error_parts, Strip(Head(err_pipe)))
    /\ err_pipe' = Tail(err_pipe)
    /\ UNCHANGED <<retried, pipe, partial_line, received, decoded, joined, reader_pc, exited,
                   out_open, stderr_pc, err_open>>
    /\ UNCHANGED <<lifeVars, splitVars, streamVars>>

\* No line on stderr for 5 seconds: break if the child has exited, read
\* again if not.
StderrTimeout ==
    /\ stderr_pc = "reading"
    /\ err_open
    /\ stderr_pc' = IF exited THEN "ended_timeout" ELSE stderr_pc
    /\ UNCHANGED <<retried, pipe, partial_line, received, decoded, joined, reader_pc, exited,
                   out_open, err_pipe, error_parts, err_open>>
    /\ UNCHANGED <<lifeVars, splitVars, streamVars>>

\* readline() returned nothing: break.
StderrEof ==
    /\ stderr_pc = "reading"
    /\ ~err_open
    /\ err_pipe = <<>>
    /\ stderr_pc' = "ended_eof"
    /\ UNCHANGED <<retried, pipe, partial_line, received, decoded, joined, reader_pc, exited,
                   out_open, err_pipe, error_parts, err_open>>
    /\ UNCHANGED <<lifeVars, splitVars, streamVars>>

\* readline() raised: break.
StderrReadError ==
    /\ stderr_pc = "reading"
    /\ stderr_pc' = "ended_error"
    /\ UNCHANGED <<retried, pipe, partial_line, received, decoded, joined, reader_pc, exited,
                   out_open, err_pipe, error_parts, err_open>>
    /\ UNCHANGED <<lifeVars, splitVars, streamVars>>

\* The child exits and is reaped: process.returncode is set.  Its pipes
\* stay open for as long as a process it started holds them.
ProcessExits ==
    /\ ~exited
    /\ exited' = TRUE
    /\ UNCHANGED <<retried, pipe, partial_line, received, decoded, joined, reader_pc,
                   out_open, err_pipe, error_parts, stderr_pc, err_open>>
    /\ UNCHANGED <<lifeVars, splitVars, streamVars>>

\* The last holder of stdout's write end closes it (what was written before
\* can still be read); the same for stderr.
CloseStdout ==
    /\ out_open
    /\ out_open' = FALSE
    /\ UNCHANGED <<retried, pipe, partial_line, received, decoded, joined, reader_pc, exited,
                   err_pipe, error_parts, stderr_pc, err_open>>
    /\ UNCHANGED <<lifeVars, splitVars, streamVars>>

CloseStderr ==
    /\ err_open
    /\ err_open' = FALSE
    /\ UNCHANGED <<retried, pipe, partial_line, received, decoded, joined, reader_pc, exited,
                   out_open, err_pipe, error_parts, stderr_pc>>
    /\ UNCHANGED <<lifeVars, splitVars, streamVars>>

NextReaders ==
    \/ ReadChunk \/ StdoutTimeout \/ StdoutEof \/ StdoutReadError
    \/ StderrLine \/ StderrTimeout \/ StderrEof \/ StderrReadError
    \/ ProcessExits \/ CloseStdout \/ CloseStderr

SpecReaders == InitReaders /\ [][NextReaders]_vars

(***************************************************************************)
(* Properties of the session lifecycle (checked under Spec).               *)
(***************************************************************************)
Running == {s \in Sessions : child[s] = "running"}

\* C1: at most one child started by call_claude_enhanced is running at any
\* time (a call made while a registered child is still running is rejected
\* without spawning a second child).
C1_AtMostOneChild == Cardinality(Running) <= 1

\* C2: from its spawn until it has exited, a child is the one
\* current_claude_process refers to (so that a stop command issued in that
\* interval addresses it).
C2_RegisteredWhileAlive ==
    \A s \in Sessions : child[s] = "running" => current_claude_process = s

\* C3: when a call that registered its child has returned, neither
\* current_claude_process nor current_claude_channel refers to that session.
C3_ReleasedOnReturn ==
    \A s \in Sessions :
        pc[s] = "returned" /\ child[s] # "none" =>
            current_claude_process # s /\ current_claude_channel # s

C5_TimeoutOnlyAfterSilence ==
    \A s \in Sessions :
        timedOut[s] /\ pc[s] = "wd_grace" => sinceEvent[s] >= BaseTimeout

(***************************************************************************)
(* Properties of split_text (checked under SpecSplit).                     *)
(***************************************************************************)
\* C10: every segment returned by split_text(text, max_len), max_len >= 1,
\* has length <= max_len.
C10_SegmentsFit ==
    split_pc # "call" => \A i \in 1..Len(split_out) : Len(split_out[i]) <= split_max

\* C16: a call whose child the inactivity watchdog terminated returns an
\* outcome that names the inactivity timeout, not the outcome of a non-zero
\* exit, of an exception or of a success.
C16_TimeoutIsReported ==
    \A s \in Sessions : (pc[s] = "returned" /\ timedOut[s]) => result[s] = "timeout"

\* C20: a call ends only with its child gone: once call_claude_enhanced has
\* returned, the child it spawned is not running.
C20_ReturnsWithChildGone ==
    \A s \in Sessions : pc[s] = "returned" => child[s] # "running"

(***************************************************************************)
(* Properties of stop_claude (checked under Spec).                         *)
(***************************************************************************)
C13_Step ==
    (stop_pc = "idle" /\ current_claude_process = None /\ stopVars' # stopVars) =>
        /\ stop_reply' = "no_process"
        /\ stop_pc' = "idle"
        /\ UNCHANGED <<termSent, killSent, child, returncode,
                       current_claude_process, current_claude_channel>>

\* C13: a stop_claude that finds current_claude_process None answers "no
\* process running" and returns: it sends no signal, takes no error path
\* and leaves current_claude_process and current_claude_channel as they are.
C13_StopWithoutProcess == [][C13_Step]_vars

\* The answer was given while a child, no longer registered, was running,
\* and no signal reached it.
C13_Witness ==
    /\ stop_reply = "no_process"
    /\ stop_pc = "idle"
    /\ current_claude_process = None
    /\ \E s \in Sessions : child[s] = "running" /\ ~termSent[s] /\ ~killSent[s]

\* stop_claude is at work on a child that was running when it was invoked.
StopAtWork == stop_pc \in {"notified", "wait_term", "wait_kill"}

C14_Step ==
    /\ (stop_pc = "wait_term" /\ stop_pc' = "wait_kill") =>
          \A s \in Sessions : killSent'[s] # killSent[s] => (s = stop_proc /\ termSent[s])
    /\ (StopAtWork /\ ~StopAtWork') =>
          /\ stop_reply' \in {"gracefully terminated", "force killed"}
          /\ stop_reply' = "force killed" <=> stop_pc = "wait_kill"
          /\ stop_code' = returncode[stop_began]
          /\ current_claude_process' = None
          /\ current_claude_channel' = None

\* C14: a stop_claude invoked on a running child kills only the child it
\* has terminated before; it ends with the report "gracefully terminated"
\* when it sent no kill and "force killed" when it did, with the exit code
\* of that child, and with the registration cleared.
C14_StopReportsTermination == [][C14_Step]_vars

\* A session has reached a terminal state (its child has exited and its
\* call has returned through the end of call_claude_enhanced) and no child
\* is running.
OnlyTerminalSessions ==
    /\ \E s \in Sessions :
          pc[s] = "returned" /\ child[s] = "exited" /\ result[s] \in {"ok", "error_exit"}
    /\ \A s \in Sessions : child[s] # "running"

C15_Step ==
    (stop_pc = "idle" /\ OnlyTerminalSessions /\ stopVars' # stopVars) =>
        /\ stop_reply' = "already_completed"
        /\ UNCHANGED <<termSent, killSent>>

\* C15: a stop_claude invoked when the session has reached a terminal state
\* (its call has returned and its child has exited) sends no signal and
\* answers "already completed".
C15_StopAfterTheEnd == [][C15_Step]_vars

\* C11: for max_len > 3, splitting the concatenation of the segments of a
\* text gives the same segments again.
C11_SplitIdempotent ==
    (split_pc = "rejoined" /\ split_max > 3) => split_again = split_out

\* A text without line or word boundary.
Solid(text) == ~Contains(text, " ") /\ ~Contains(text, "\n")

\* C12: a text without line or word boundary, longer than max_len and at
\* most twice as long, is split into two segments, the first of length
\* max_len, whose concatenation is the text (stated here for max_len > 3,
\* where the three dots of a truncation fit).
C12_SolidTextInTwo ==
    (split_pc # "call" /\ Solid(split_in) /\ split_max > 3
       /\ split_max < Len(split_in) /\ Len(split_in) <= 2 * split_max) =>
        /\ Len(split_out) = 2
        /\ Len(split_out[1]) = split_max
        /\ Len(split_out[2]) = Len(split_in) - split_max
        /\ split_out[1] \o split_out[2] = split_in

(***************************************************************************)
(* Properties of read_stdout (checked under SpecStream).                   *)
(***************************************************************************)
\* a is a prefix of b
IsPrefix(a, b) == Len(a) <= Len(b) /\ SubSeq(b, 1, Len(a)) = a

C6_Bounds ==
    /\ 0 <= sent_text_length
    /\ sent_text_length <= Len(current_assistant_message)

C6_Step ==
    /\ sent_text_length' >= sent_text_length
    /\ IsPrefix(current_assistant_message, current_assistant_message')

\* C6: in every reachable state of read_stdout
\* 0 <= sent_text_length <= len(current_assistant_message); no step lowers
\* sent_text_length, and every step leaves current_assistant_message a
\* prefix of its new value (it changes only by appending).
C6_WatermarkWithinText == []C6_Bounds /\ [][C6_Step]_vars

\* Text was delivered, more text arrived after it and waits.
C6_Witness ==
    /\ stdout_pc = "reading"
    /\ 0 < sent_text_length
    /\ sent_text_length < Len(current_assistant_message)

\* C7: no call of the transport's send carries more than 2000 characters.
C7_SendWithinLimit == \A i \in 1..Len(out) : Len(out[i].text) <= DiscordLimit

\* C8: a tool-use notice (and the todo list sent with it) is sent only when
\* no assistant text waits to be delivered, and no delivery of assistant
\* text spans a position of the text at which a tool use occurred.
C8_ToolUseFlushesText ==
    \A i \in 1..Len(out) :
        /\ out[i].kind \in {"tool_use", "todo_list"} => ~out[i].pending
        /\ out[i].kind = "text" =>
              \A m \in tool_marks : ~(out[i].lo < m /\ m < out[i].hi)

\* C9: when a result carries is_error and the usage-limit marker and the
\* transport accepts what it is given, exactly one message, the usage-limit
\* message, is sent for it and read_stdout returns.
C9_UsageLimitOneMessage ==
    (last_line = "usage_limit" /\ \A i \in 1..Len(out) : out[i].ok) =>
        /\ Len(out) = 1
        /\ out[1].kind = "usage_limit"
        /\ stdout_pc = "returned"

\* The transport accepted every call of the last step.
TransportFine == \A i \in 1..Len(out) : out[i].ok

\* Assistant text waits to be delivered.
TextWaits == Strip(PySuffix(current_assistant_message, sent_text_length)) # ""

\* C17: when read_stdout ends on a usage-limit result or on an unexpected
\* internal error (a line that is JSON but no object) and the transport
\* accepts what it is given, no assistant text is left undelivered.
C17_FatalPathFlushes ==
    (stdout_pc # "reading" /\ last_line \in {"usage_limit", "nonobject"} /\ TransportFine)
        => ~TextWaits

\* The transport failed a call of the last step whose text was within the
\* limit.
SendFailed == \E i \in 1..Len(out) : ~out[i].ok /\ Len(out[i].text) <= DiscordLimit

\* C18: after a record during whose handling the transport failed a send,
\* read_stdout is still reading.
C18_SendFailureSkipped ==
    (last_line \in {"assistant", "user", "system", "result"} /\ SendFailed)
        => stdout_pc = "reading"

C19_Step ==
    (lines_read' # lines_read /\ last_line' = "nonjson") =>
        /\ out' = <<>>
        /\ UNCHANGED <<current_assistant_message, sent_text_length, tools_used_after_text,
                       last_discord_message, is_todo_result>>
        /\ stdout_pc' = "reading"

\* C19: the step that handles a line which is not JSON sends nothing,
\* leaves current_assistant_message, sent_text_length and
\* tools_used_after_text (and the other locals) as they are, and read_stdout
\* goes on reading.
C19_UndecodableLineSkipped == [][C19_Step]_vars

\* Such a line was handled while assistant text waited, and the text still
\* waits.
C19_Witness == last_line = "nonjson" /\ stdout_pc = "reading" /\ TextWaits

\* A multiple of 500 lies in the interval (n - k, n].
Crosses(n, k) == \E m \in (n - k + 1)..n : m % FlushEvery = 0

C21_Step ==
    LET n == Len(current_assistant_message')
        k == n - Len(current_assistant_message)
    IN  (lines_read' # lines_read /\ last_shape' \in {"text_late", "text_soon"}) =>
            /\ k > 0
            /\ flush_tries' = (IF last_shape' = "text_late" \/ Crosses(n, k) THEN 1 ELSE 0)
            /\ flush_tries' = 0 => out' = <<>> /\ UNCHANGED sent_text_length

\* C21: the step that appends a text block of k > 0 characters, bringing the
\* text to n characters, attempts a flush if and only if a second or more
\* has passed since the last attempt or a multiple of 500 lies in (n - k, n];
\* when no flush is attempted nothing is sent and sent_text_length is
\* unchanged.
C21_FlushWhenDue == [][C21_Step]_vars

\* A block came less than a second after the last flush attempt, took the
\* text from under 500 characters across that mark, and was delivered.
C21_Witness ==
    /\ last_shape = "text_soon"
    /\ flush_tries = 1
    /\ Len(current_assistant_message) \in 500..505
    /\ sent_text_length = Len(current_assistant_message)
    /\ out # <<>>

\* The last call of the last step that carried assistant text, 0 if none.
LastText ==
    LET at == {i \in 1..Len(out) : out[i].kind = "text"}
    IN  IF at = {} THEN 0 ELSE CHOOSE i \in at : \A j \in at : j <= i

\* The last step delivered assistant text up to the end of the text, the
\* transport accepting every call, and no tool use followed the delivery
\* within the step.
TextDelivered ==
    /\ LastText > 0
    /\ TransportFine
    /\ out[LastText].hi = Len(current_assistant_message)
    /\ \A i \in (LastText + 1)..Len(out) : out[i].kind \notin {"tool_use", "todo_list"}

C22_Delivered ==
    TextDelivered =>
        /\ sent_text_length = Len(current_assistant_message)
        /\ ~tools_used_after_text

C22_EmptySlice ==
    (last_line' \in {"eof", "result"} /\ stdout_pc = "reading" /\ stdout_pc' # "reading"
     /\ sent_text_length = Len(current_assistant_message)) =>
        /\ \A i \in 1..Len(out') : out'[i].kind # "text"
        /\ UNCHANGED sent_text_length

\* C22: after a step whose flush (of a text block, of the completion, of the
\* end of the stream) delivered the text, sent_text_length is
\* len(current_assistant_message) and tools_used_after_text is false; and
\* the flush at the end of the stream of a text wholly delivered sends
\* nothing and leaves sent_text_length unchanged.
C22_FlushAdvances == []C22_Delivered /\ [][C22_EmptySlice]_vars

\* C23: when read_stdout stops on the end of the stream or on a read
\* timeout after the child's exit, and the transport accepted what it was
\* given, no assistant text is left undelivered (sent_text_length has
\* reached len(current_assistant_message), white space at the end apart).
C23_ExitFlushesAll ==
    (stdout_pc = "broken" /\ last_line \in {"eof", "read_timeout"} /\ TransportFine)
        => ~TextWaits

C24_Step ==
    (lines_read' # lines_read /\ last_line' = "result" /\ TransportFine') =>
        LET n == Len(out')
        IN  /\ n >= 1
            /\ out'[n].kind = "completion"
            /\ ~out'[n].pending
            /\ \A i \in 1..(n - 1) : out'[i].kind = "text"
            /\ TextWaits =>
                  /\ n >= 2
                  /\ out'[1].lo = sent_text_length
                  /\ out'[n - 1].hi = Len(current_assistant_message)
            /\ ~TextWaits'

C25_Set ==
    (stdout_pc = "reading" /\ last_shape = "tool_use" /\ TransportFine
     /\ sent_text_length > 0) => tools_used_after_text

C25_Kept ==
    (tools_used_after_text /\ ~tools_used_after_text') =>
        \E i \in 1..Len(out') : out'[i].kind = "text" /\ out'[i].ok

\* C25: after a line with a tool_use block that came when assistant text had
\* been delivered (sent_text_length > 0), tools_used_after_text is true; and
\* only a step that delivers assistant text makes it false again.
C25_ToolUseAfterText == []C25_Set /\ [][C25_Kept]_vars

C29_Step ==
    /\ (lines_read' # lines_read /\ (last_line' = "control" \/ last_shape' = "unknown_block")) =>
          /\ out' = <<>>
          /\ UNCHANGED <<current_assistant_message, sent_text_length, tools_used_after_text,
                         last_discord_message, is_todo_result>>
          /\ stdout_pc' = "reading"
    /\ (lines_read' # lines_read /\ last_shape' = "unknown_first") =>
          /\ Len(current_assistant_message') > Len(current_assistant_message)
          /\ flush_tries' = 1

\* C29: the step that handles a record of a type other than assistant, user,
\* system and result, or a record whose one content block is of a type other
\* than text, tool_use, tool_result and thinking, sends nothing, leaves
\* current_assistant_message, sent_text_length and tools_used_after_text
\* (and the other locals) as they are, and read_stdout goes on reading; a
\* text block that follows such a block in the same record is handled.
C29_UnknownSkipped == [][C29_Step]_vars

\* A record of an unknown type was skipped while text waited.
C29_Witness ==
    /\ last_line = "control"
    /\ stdout_pc = "reading"
    /\ TextWaits

\* The number of times the character c occurs in s.
CountOf(s, c) == Cardinality({i \in 1..Len(s) : Ch(s, i) = c})

\* C30: a line with one tool_result whose content is taken for the output
\* of Read sends nothing; a line with any other tool_result that
\* read_stdout handles to its end sends, when the transport accepts it, one
\* message that starts with the status mark and
\* holds at most 1000 characters of the content (counted in the model by
\* the letter q, of which contents are made and the message frame has none).
C30_ToolResultDelivery ==
    /\ last_shape = "read_result" => out = <<>>
    /\ (last_shape = "tool_result" /\ TransportFine /\ stdout_pc = "reading") =>
          /\ Len(out) = 1
          /\ out[1].kind = "tool_result"
          /\ StartsWith(out[1].text, E \o " **Tool Result**")
          /\ CountOf(out[1].text, "q") <= ResultCap

\* The calls of the step that delivered assistant text, in order.
TextCalls(calls) == SelectSeq(calls, LAMBDA c : c.kind = "text" /\ c.ok)

\* The deliveries t hand over the text from position s to position e piece
\* by piece: each starts where the one before ended (or is a further chunk
\* of the same slice), and a slice delivered in one call is handed over as
\* it stands.
Contiguous(t, text, s, e) ==
    t # <<>> =>
        /\ t[1].lo = s
        /\ t[Len(t)].hi = e
        /\ \A i \in 1..(Len(t) - 1) :
              \/ t[i + 1].lo = t[i].hi
              \/ t[i + 1].lo = t[i].lo /\ t[i + 1].hi = t[i].hi
        /\ \A i \in 1..Len(t) :
              (\A j \in 1..Len(t) : j # i => t[j].lo # t[i].lo) =>
                  t[i].text = SubSeq(text, t[i].lo + 1, t[i].hi)

\* C36: in every step of read_stdout the deliveries of assistant text hand
\* to the transport the slices of current_assistant_message from
\* sent_text_length before the step to sent_text_length after it, one after
\* the other, nothing twice and nothing left out.
C36_ContiguousDeliveries ==
    [][Contiguous(TextCalls(out'), current_assistant_message', sent_text_length,
                  sent_text_length')]_vars

\* The line with one tool_result block whose content is empty.
EmptyResult == User(<<ToolResultB("")>>)

C37_Step ==
    ((\E fail \in FailModes : Handle(EmptyResult, Shapes[EmptyResult], fail)) /\ TransportFine') =>
        /\ stdout_pc' = "reading"
        /\ Len(out') = 1
        /\ out'[1].kind = "tool_result"
        /\ out'[1].text = E \o " **Tool Result**"

\* C37: the step that handles a tool_result with empty content, the
\* transport accepting what it is given, delivers the status-only message
\* and leaves read_stdout reading, whatever was handled before.
C37_EmptyResultHandled == [][C37_Step]_vars

\* C38: after a line that is JSON but no object, read_stdout goes on
\* reading.
C38_NonRecordSkipped == last_line = "nonobject" => stdout_pc = "reading"

(***************************************************************************)
(* Properties of the reads (checked under SpecReaders).                    *)
(***************************************************************************)
\* The text received so far, cut at its newlines.
Pieces == PySplit(received, "\n")

\* C26: in every state the lines handed to the decoder are, in order and
\* once each, the newline-terminated lines of the text received so far
\* (stripped, the empty ones left out), however the reads cut that text; and
\* partial_line is what follows the last newline, which has not been handed
\* to the decoder.
C26_OnlyWholeLines ==
    /\ decoded = Handed(SubSeq(Pieces, 1, Len(Pieces) - 1))
    /\ partial_line = Pieces[Len(Pieces)]

\* A line that came in two reads or more was handed to the decoder.
C26_Witness == joined /\ decoded # <<>>

\* C27: when read_stdout stops at the end of the stream, the child having
\* exited, every record received has been handed to the decoder, the last
\* one too when no newline follows it.
C27_TrailingRecordDecoded == reader_pc = "ended_eof" => decoded = Handed(Pieces)

\* What the readers hold, the note of a retry apart.
readerState == <<pipe, partial_line, received, decoded, joined, reader_pc, exited, out_open,
                 err_pipe, error_parts, stderr_pc, err_open>>

C28_Step ==
    /\ (StdoutTimeout /\ ~exited) => UNCHANGED readerState
    /\ (StderrTimeout /\ ~exited) => UNCHANGED readerState
    /\ (StdoutTimeout /\ exited) => reader_pc' = "ended_timeout"
    /\ (StdoutEof /\ exited) => reader_pc' = "ended_eof"
    /\ (StderrTimeout /\ exited) => stderr_pc' = "ended_timeout"
    /\ (StderrEof /\ exited) => stderr_pc' = "ended_eof"
    /\ (reader_pc = "reading" /\ reader_pc' \in {"ended_timeout", "ended_eof"}) => exited
    /\ (stderr_pc = "reading" /\ stderr_pc' = "ended_timeout") => exited

\* C28: a read timeout on stdout or stderr while the child runs changes
\* nothing and leaves the reader reading; a read timeout after the child's
\* exit ends the reader, and so does the end of the stream after the child's
\* exit; a reader does not end on a timeout before the child's exit.
C28_ReadTimeouts == [][C28_Step]_vars

\* read_stdout read again after a timeout while the child ran, and ended on
\* a timeout after the child's exit.
C28_Witness == retried /\ reader_pc = "ended_timeout"

\* What read_stdout holds of the stream.
stdoutState == <<pipe, partial_line, received, decoded, joined, retried, reader_pc>>

C31_Step ==
    /\ IsPrefix(decoded, decoded')
    /\ IsPrefix(error_parts, error_parts')
    /\ error_parts' # error_parts =>
          /\ error_parts' = Append(error_parts, Strip(Head(err_pipe)))
          /\ UNCHANGED <<stdoutState, streamVars>>
    /\ err_pipe' # err_pipe => UNCHANGED <<stdoutState, streamVars>>
    /\ stderr_pc' # stderr_pc => UNCHANGED <<stdoutState, streamVars>>

\* C31: the lines handed to the decoder are the complete lines of stdout in
\* the order of their completion (a step only adds lines at the end, and
\* by C26_OnlyWholeLines they are the lines of the text received); a step
\* of read_stderr only adds its line at the end of error_parts and leaves
\* alone what read_stdout holds and what it has delivered.
C31_OrderedAndSeparate ==
    /\ [](decoded = Handed(SubSeq(Pieces, 1, Len(Pieces) - 1)))
    /\ [][C31_Step]_vars

\* Two lines of stdout were handed over in turn and two lines of stderr
\* were kept.
C31_Witness == Len(decoded) = 2 /\ Len(error_parts) = 2

\* The lines that the whole stream gives when what is left in the pipe is
\* read in one chunk.
LinesOfStream(text, rest) ==
    LET all == PySplit(text \o Decode(rest), "\n")
    IN  Handed(SubSeq(all, 1, Len(all) - 1))

\* C39: where a read ends makes no difference to the lines handed to the
\* decoder: after a read of any length, reading the rest in one chunk gives
\* the lines that reading everything in one chunk would have given.
C39_ChunkingIrrelevant ==
    [][LinesOfStream(received', pipe') = LinesOfStream(received, pipe)]_vars

(***************************************************************************)
(* Further properties of the lifecycle (checked under Spec).               *)
(***************************************************************************)
C32_Never ==
    \A s \in Sessions :
        result[s] = "error_start" =>
            /\ pc[s] = "returned"
            /\ child[s] = "none"
            /\ readers[s] = "none"
            /\ ~timedOut[s]

C32_Step ==
    \A s \in Sessions :
        (result[s] = "none" /\ result'[s] = "error_start") =>
            /\ pc[s] = "idle"
            /\ UNCHANGED <<current_claude_process, current_claude_channel, child, readers,
                           returncode, termSent, killSent, idle>>

\* C32: a call whose spawn fails returns "Error: Failed to start" at once,
\* from the start of the call, and leaves current_claude_process and
\* current_claude_channel as they are; such a call never has a child, a
\* readers task or a watchdog, not later either (no retry).
C32_SpawnFailureReturns == []C32_Never /\ [][C32_Step]_vars

\* The spawn of the second call failed while the child of the first was
\* running and registered.
C32_Witness ==
    /\ result["p2"] = "error_start"
    /\ child["p1"] = "running"
    /\ current_claude_process = "p1"

\* stop_claude is suspended in its wait for the child's exit.
StopWaits == stop_pc \in {"wait_term", "wait_kill"}

C35_Step ==
    (stopVars' # stopVars) =>
        /\ \A s \in Sessions :
              (termSent'[s] # termSent[s] \/ killSent'[s] # killSent[s]) => s = stop_began
        /\ (StopWaits /\ ~StopWaits') =>
              /\ stop_reply' # "error"
              /\ current_claude_process = stop_began
        /\ (current_claude_process # None /\ current_claude_process' = None) =>
              current_claude_process = stop_began

\* C35: a step of stop_claude signals no process but the one that was
\* registered when the command began; when the command comes back from its
\* wait for the child's exit it goes on to kill that process or ends with a
\* termination report about it (not with the answer of its error branch);
\* and it clears no registration but that of that process.
C35_StopKeepsItsProcess == [][C35_Step]_vars

\* The handler of the command sends the value returned by
\* call_claude_enhanced when it starts with "Error:".
HandlerSendsError(s) == result[s] \in {"error_start", "error_exit", "error_exception"}

\* The operator's stop command sent the child of s its terminate (the
\* watchdog, the one other sender, did not), and the readers of s, which
\* were streaming, came to their end.
StoppedByOperator(s) == termSent[s] /\ ~timedOut[s] /\ readers[s] = "done"

\* C40: when the call of a session that the operator's stop terminated has
\* returned, the command handler sends no "Error: ..." message for it.
C40_StopReportedOnce ==
    \A s \in Sessions :
        (pc[s] = "returned" /\ StoppedByOperator(s)) => ~HandlerSendsError(s)

(***************************************************************************)
(* Further properties of split_text (checked under SpecSplit).             *)
(***************************************************************************)
\* C33: a text of at most max_len characters comes back as the one segment
\* [text]; and every segment that split_text returns comes back as it is
\* when it is split again.
C33_FittingTextKept ==
    split_pc # "call" =>
        /\ Len(split_in) <= split_max => split_out = <<split_in>>
        /\ \A i \in 1..Len(split_out) :
              split_text(split_out[i], split_max) = <<split_out[i]>>

\* The text is split by word-boundary packing: it is longer than max_len,
\* has no newline and has a blank (and max_len has room for the ellipsis).
PackedByWords ==
    /\ split_max >= 3
    /\ Len(split_in) > split_max
    /\ Len(PySplit(split_in, "\n")) = 1
    /\ Len(PySplit(split_in, " ")) > 1

\* C34: when a text is packed by words, every word of at most max_len
\* characters is found whole in a segment, and for every word of more than
\* max_len characters there is a segment of max_len characters that starts
\* as the word does and ends in the ellipsis.
C34_OnlyLongWordsCut ==
    (split_pc # "call" /\ PackedByWords) =>
        LET words == PySplit(split_in, " ")
        IN  \A k \in 1..Len(words) :
                IF Len(words[k]) <= split_max
                THEN \E i \in 1..Len(split_out) : Contains(split_out[i], words[k])
                ELSE \E i \in 1..Len(split_out) :
                        /\ Len(split_out[i]) = split_max
                        /\ split_out[i] = Truncate(words[k], split_max)

====
